---- MODULE Spec2Model ----
(***************************************************************************)
(* Adaptive classification and convergent validation-repair pipeline.      *)
(*                                                                         *)
(* The components of the repository are modelled, each with its own        *)
(* specification over the shared variables:                                *)
(*   SpecQueue   ActiveLearningManager (Tier 3 review queue, one caller)   *)
(*   SpecConc    ActiveLearningManager called from two threads             *)
(*   SpecFusion  FusionEngine.__init__ and FusionEngine.fuse               *)
(*   SpecLoop    ValidationLoop.run with DITAOTValidator and               *)
(*               IntelligentRepairer                                       *)
(***************************************************************************)
EXTENDS Integers, Sequences, FiniteSets, TLC

VARIABLES
    \* ---- ActiveLearningManager: the two files under review_dir
    pending_file,      \* pending_review.json: whether it exists, and the list in it
    training_file,     \* training_set.jsonl: the list of training examples
    call,              \* the last call made on the manager and how it ended
    \* ---- two threads calling the manager (SpecConc)
    threads,           \* per thread: position in its call and its local `pending`
    \* ---- FusionEngine
    engine,            \* the engine as constructed (or the constructor's error)
    fused,             \* the last result of fuse, with its inputs
    \* ---- ValidationLoop.run
    loop,              \* the locals of run and the result dict it builds
    \* ---- LLMClassifier, RuleBasedClassifier, HybridClassifier, DocumentAnalyzer
    classifier         \* the call in progress: its inputs, its position, its result

vars == <<pending_file, training_file, call, threads, engine, fused, loop, classifier>>

\* The canonical category list, in the order the code writes it.
content_types == <<"Task", "Concept", "Reference">>

Categories == {content_types[i] : i \in 1..Len(content_types)}

Range(s) == {s[i] : i \in 1..Len(s)}

\* Values given to the variables of the components a specification leaves out.
Idle == [state |-> "idle"]

(***************************************************************************)
(* ActiveLearningManager                                                   *)
(***************************************************************************)

\* ---- bounds of the queue model
MaxQueue == 2          \* review items ever enqueued
MaxTraining == 3       \* training examples ever written

\* Chunks handed to mark_for_review: the same id may come with two titles.
Chunks == {[id |-> "c1", title |-> "Intro"],
           [id |-> "c2", title |-> "Setup"]}

ChunkIds == {c.id : c \in Chunks}

\* Ids a reviewer may submit: the enqueued ones and one never enqueued.
SubmitIds == ChunkIds \cup {"c9"}

\* Labels a reviewer may submit: the canonical ones and one that is not
\* (the membership test is case-sensitive).
SubmitLabels == Categories \cup {"task"}

\* The tier results stored with a review item.
Tier1Samples == {[type |-> "Task", confidence |-> 55]}
Tier2Samples == {[type |-> "Concept", confidence |-> 58]}

\* pending_review.json: not there yet, holding a JSON list, or holding text that
\* is no JSON document (a file opened for writing and not yet written).
AbsentFile == [state |-> "absent", items |-> <<>>]
JsonFile(items) == [state |-> "json", items |-> items]
TornFile == [state |-> "torn", items |-> <<>>]

\* _load_pending_queue: the list in the file, [] when the file does not exist.
LoadPendingQueue(file) == IF file.state = "absent" THEN <<>> ELSE file.items

\* The review item mark_for_review builds.
ReviewItem(chunk, tier1_result, tier2_result) ==
    [chunk_id    |-> chunk.id,
     title       |-> chunk.title,
     tier1       |-> tier1_result,
     tier2       |-> tier2_result,
     status      |-> "pending",
     human_label |-> "None"]

\* The training example _add_to_training_set builds from a reviewed item.
TrainingExample(reviewed_item) ==
    [title            |-> reviewed_item.title,
     label            |-> reviewed_item.human_label,
     tier1_prediction |-> reviewed_item.tier1.type,
     tier2_prediction |-> reviewed_item.tier2.type]

\* Mutant of LabelAccepted: the label is compared without regard to case.
LabelAcceptedAnyCase(human_label) ==
    human_label \in {"Task", "Concept", "Reference", "task", "concept", "reference"}

\* The label check at the head of submit_human_label.
LabelAccepted(human_label) == human_label \in {"Task", "Concept", "Reference"}

\* The item the loop of submit_human_label stops at: the first one whose
\* chunk_id matches, whatever its status; 0 when none does.
FindItem(pending, chunk_id) ==
    IF \E i \in 1..Len(pending) : pending[i].chunk_id = chunk_id
    THEN CHOOSE i \in 1..Len(pending) :
            /\ pending[i].chunk_id = chunk_id
            /\ \A j \in 1..(i - 1) : pending[j].chunk_id # chunk_id
    ELSE 0

\* The item as the loop of submit_human_label rewrites it.
Label(item, human_label) ==
    [item EXCEPT !.human_label = human_label, !.status = "reviewed"]

OthersIdleQueue == UNCHANGED <<threads, engine, fused, loop, classifier>>

\* mark_for_review(chunk, tier1_result, tier2_result)
MarkForReview ==
    \E chunk \in Chunks, t1 \in Tier1Samples, t2 \in Tier2Samples :
        LET pending == LoadPendingQueue(pending_file) IN
        /\ Len(pending) < MaxQueue
        /\ pending_file' = JsonFile(Append(pending, ReviewItem(chunk, t1, t2)))
        /\ call' = [op |-> "mark_for_review", chunk_id |-> chunk.id,
                    label |-> "None", outcome |-> "returned"]
        /\ UNCHANGED training_file
        /\ OthersIdleQueue

\* submit_human_label(chunk_id, human_label)
SubmitHumanLabel ==
    \E chunk_id \in SubmitIds, human_label \in SubmitLabels :
        LET pending == LoadPendingQueue(pending_file)
            i       == FindItem(pending, chunk_id)
            this    == [op |-> "submit_human_label", chunk_id |-> chunk_id,
                        label |-> human_label, outcome |-> "returned"]
        IN
        IF ~LabelAccepted(human_label)
        THEN \* raise ValueError
             /\ call' = [this EXCEPT !.outcome = "ValueError"]
             /\ UNCHANGED <<pending_file, training_file>>
             /\ OthersIdleQueue
        ELSE IF i = 0
        THEN \* logger.error, return
             /\ call' = [this EXCEPT !.outcome = "logged_not_found"]
             /\ UNCHANGED <<pending_file, training_file>>
             /\ OthersIdleQueue
        ELSE /\ Len(training_file) < MaxTraining
             /\ training_file' =
                    Append(training_file, TrainingExample(Label(pending[i], human_label)))
             /\ pending_file' = JsonFile([pending EXCEPT ![i] = Label(pending[i], human_label)])
             /\ call' = this
             /\ OthersIdleQueue

InitQueue ==
    /\ pending_file = AbsentFile
    /\ training_file = <<>>
    /\ call = [op |-> "none", chunk_id |-> "None", label |-> "None", outcome |-> "none"]
    /\ threads = Idle
    /\ engine = Idle
    /\ fused = Idle
    /\ loop = Idle
    /\ classifier = Idle

NextQueue == MarkForReview \/ SubmitHumanLabel

SpecQueue == InitQueue /\ [][NextQueue]_vars

\* ---- claims about the review queue (checked under SpecQueue)

Queue == LoadPendingQueue(pending_file)

Reviewed(pending) == {i \in 1..Len(pending) : pending[i].status = "reviewed"}

IsPrefix(s, t) == Len(s) <= Len(t) /\ \A i \in 1..Len(s) : t[i] = s[i]

\* C4: pending -> reviewed is terminal. Once an item is reviewed, no later
\* step changes it, and a submit_human_label call that lands on it appends no
\* further training example.
C4_ReviewedIsTerminal ==
    [][\A i \in Reviewed(Queue) :
          /\ LoadPendingQueue(pending_file')[i] = Queue[i]
          /\ (call'.op = "submit_human_label" /\ FindItem(Queue, call'.chunk_id) = i)
                => training_file' = training_file]_vars

\* C5: the training corpus holds exactly one record per reviewed item and is
\* append-only.
C5_OneRecordPerReviewedItem ==
    /\ Len(training_file) = Cardinality(Reviewed(Queue))
    /\ [][/\ Len(training_file') = Cardinality(Reviewed(LoadPendingQueue(pending_file')))
          /\ IsPrefix(training_file, training_file')]_vars

\* C6: submit_human_label with a canonical label and an id that is not in the
\* queue fails with a NotFound error the caller sees, and changes neither file.
C6_UnknownIdRaisesNotFound ==
    [][(/\ call'.op = "submit_human_label"
        /\ call'.label \in Categories
        /\ FindItem(Queue, call'.chunk_id) = 0)
          => /\ call'.outcome = "NotFound"
             /\ pending_file' = pending_file
             /\ training_file' = training_file]_vars

\* C7: submit_human_label with a label outside {Task, Concept, Reference}
\* raises (ValueError), whatever the id, and changes neither file.
C7_InvalidLabelRaises ==
    [][(call'.op = "submit_human_label" /\ call'.label \notin Categories)
          => /\ call'.outcome = "ValueError"
             /\ pending_file' = pending_file
             /\ training_file' = training_file]_vars

\* C7 witness: a non-canonical label was refused for an id whose item is
\* already reviewed while another item is still pending.
C7_Witness ==
    /\ call.op = "submit_human_label"
    /\ call.label \notin Categories
    /\ call.outcome = "ValueError"
    /\ FindItem(Queue, call.chunk_id) \in Reviewed(Queue)
    /\ \E i \in 1..Len(Queue) : Queue[i].status = "pending"

(***************************************************************************)
(* ActiveLearningManager called from two threads.  The web routes start    *)
(* one thread per processing request; every manager works on the same two  *)
(* files and takes no lock.  A call is cut at its file operations.         *)
(***************************************************************************)

Threads == {1, 2}

\* The tier arguments of a call that takes none.
NoTier == [type |-> "None", confidence |-> 0]

\* The calls a thread may make.
ThreadCalls ==
    {[op |-> "mark_for_review", chunk |-> c, tier1 |-> t1, tier2 |-> t2,
      chunk_id |-> c.id, label |-> "None"] :
        c \in Chunks, t1 \in Tier1Samples, t2 \in Tier2Samples}
    \cup
    {[op |-> "submit_human_label", chunk |-> [id |-> id, title |-> "None"],
      tier1 |-> NoTier, tier2 |-> NoTier, chunk_id |-> id, label |-> l] :
        id \in SubmitIds, l \in SubmitLabels}

\* The queue files the two calls start from.
StartQueues ==
    {AbsentFile} \cup
    {JsonFile(<<ReviewItem(c, t1, t2)>>) : c \in {x \in Chunks : x.id = "c1"},
                                 t1 \in Tier1Samples, t2 \in Tier2Samples}

OthersIdleConc == UNCHANGED <<call, engine, fused, loop, classifier>>

\* submit_human_label, line 110-111: the label is refused before any file is read.
ThreadRaise(t) ==
    /\ threads.at[t].pc = "start"
    /\ threads.at[t].call.op = "submit_human_label"
    /\ ~LabelAccepted(threads.at[t].call.label)
    /\ threads' = [threads EXCEPT !.at[t].pc = "raised"]
    /\ UNCHANGED <<pending_file, training_file>>
    /\ OthersIdleConc

\* pending = self._load_pending_queue(), then the changes made to the local list.
\* A file another thread has opened for writing and not yet written holds no
\* JSON document: json.load raises.
ThreadLoad(t) ==
    LET c       == threads.at[t].call
        pending == LoadPendingQueue(pending_file)
        i       == FindItem(pending, c.chunk_id)
    IN
    /\ threads.at[t].pc = "start"
    /\ c.op = "submit_human_label" => LabelAccepted(c.label)
    /\ IF pending_file.state = "torn"
       THEN threads' = [threads EXCEPT !.at[t].pc = "crashed"]
       ELSE IF c.op = "mark_for_review"
       THEN threads' = [threads EXCEPT
                !.at[t].pc = "loaded",
                !.at[t].pending = Append(pending, ReviewItem(c.chunk, c.tier1, c.tier2))]
       ELSE IF i = 0
       THEN threads' = [threads EXCEPT !.at[t].pc = "done"]
       ELSE threads' = [threads EXCEPT
                !.at[t].pc = "found",
                !.at[t].item = <<Label(pending[i], c.label)>>,
                !.at[t].pending = [pending EXCEPT ![i] = Label(pending[i], c.label)]]
    /\ UNCHANGED <<pending_file, training_file>>
    /\ OthersIdleConc

\* self._add_to_training_set(item): one line appended to the training file.
ThreadAppendTraining(t) ==
    /\ threads.at[t].pc = "found"
    /\ training_file' = Append(training_file, TrainingExample(threads.at[t].item[1]))
    /\ threads' = [threads EXCEPT !.at[t].pc = "loaded"]
    /\ UNCHANGED pending_file
    /\ OthersIdleConc

\* open(self.pending_review_path, 'w'): the file is created or truncated.
ThreadOpen(t) ==
    /\ threads.at[t].pc = "loaded"
    /\ pending_file' = TornFile
    /\ threads' = [threads EXCEPT !.at[t].pc = "opened"]
    /\ UNCHANGED training_file
    /\ OthersIdleConc

\* json.dump(pending, f) and the close of the file: the thread's list is written
\* from offset 0 of its own descriptor.  Onto an empty file that leaves the
\* list; onto what another thread wrote since the truncation it leaves the list
\* or, when the other text was longer, the list followed by the other's tail.
ThreadDump(t) ==
    /\ threads.at[t].pc = "opened"
    /\ \/ pending_file' = JsonFile(threads.at[t].pending)
       \/ pending_file.state # "torn" /\ pending_file' = TornFile
    /\ threads' = [threads EXCEPT !.at[t].pc = "done"]
    /\ UNCHANGED training_file
    /\ OthersIdleConc

InitConc ==
    /\ pending_file \in StartQueues
    /\ training_file = <<>>
    /\ call = [op |-> "none", chunk_id |-> "None", label |-> "None", outcome |-> "none"]
    /\ \E c1 \in ThreadCalls, c2 \in ThreadCalls :
          threads = [start |-> pending_file,
                     at |-> [t \in Threads |->
                                [pc |-> "start", call |-> IF t = 1 THEN c1 ELSE c2,
                                 pending |-> <<>>, item |-> <<>>]]]
    /\ engine = Idle
    /\ fused = Idle
    /\ loop = Idle
    /\ classifier = Idle

NextConc ==
    \E t \in Threads :
        \/ ThreadRaise(t)
        \/ ThreadLoad(t)
        \/ ThreadAppendTraining(t)
        \/ ThreadOpen(t)
        \/ ThreadDump(t)

SpecConc == InitConc /\ [][NextConc]_vars

\* ---- claim about concurrent writers (checked under SpecConc)

\* The two files after call c has run alone, from start to end, on `files`.
Serial(files, c) ==
    LET pending == LoadPendingQueue(files.pending)
        i       == FindItem(pending, c.chunk_id)
    IN
    IF c.op = "mark_for_review"
    THEN [files EXCEPT
            !.pending = JsonFile(Append(pending, ReviewItem(c.chunk, c.tier1, c.tier2)))]
    ELSE IF ~LabelAccepted(c.label) \/ i = 0
    THEN files
    ELSE [pending  |-> JsonFile([pending EXCEPT ![i] = Label(pending[i], c.label)]),
          training |-> Append(files.training, TrainingExample(Label(pending[i], c.label)))]

AllReturned == \A t \in Threads : threads.at[t].pc \in {"done", "raised", "crashed"}

\* C8: concurrent writers are serialized. When both calls have ended, the two
\* files are what running the calls one after the other, in one of the two
\* orders, leaves.
C8_WritersSerialized ==
    AllReturned =>
        LET start == [pending |-> threads.start, training |-> <<>>]
            c1    == threads.at[1].call
            c2    == threads.at[2].call
        IN [pending |-> pending_file, training |-> training_file]
              \in {Serial(Serial(start, c1), c2), Serial(Serial(start, c2), c1)}

(***************************************************************************)
(* FusionEngine.  Weights, scores, confidences and thresholds are floats   *)
(* in the code; here they are integers counting units of 1/One, so that    *)
(* 1.0 is One and the tolerance 0.01 of the constructor is Tolerance.      *)
(* A normalized score v / total is kept as the fraction num / den.         *)
(***************************************************************************)

One == 200
Tolerance == 2

\* Weights a caller may pass to the constructor (0.3 and 0.7 are the defaults).
WeightValues == {-100, 0, 60, 100, 140, 141, 142, 144, 200, 300}

\* confidence_threshold values a caller may pass (0.6 is the default).
ThresholdValues == {120, 180}

\* Scores a tier may report for a category; a missing key reads as 0.
ScoreValues == {0, 100, 200}

ScoreMaps == [Categories -> ScoreValues]

Abs(x) == IF x < 0 THEN -x ELSE x

\* Mutant of WeightsRejected: the deviation is compared without abs().
WeightsRejectedNoAbs(tier1_weight, tier2_weight) ==
    (tier1_weight + tier2_weight) - One > Tolerance

\* abs(total_weight - 1.0) > 0.01, where the sum is far enough from the tolerance
\* for float rounding not to matter.
WeightsRejected(tier1_weight, tier2_weight) ==
    Abs((tier1_weight + tier2_weight) - One) > Tolerance

\* At a distance of exactly 0.01 the rounding of the float sum decides the
\* comparison: 0.3 + 0.71 is rejected, -2.0 + 3.01 is accepted.
RoundingDecides(tier1_weight, tier2_weight) ==
    Abs((tier1_weight + tier2_weight) - One) = Tolerance

\* Mutant of BestType: the last category whose score is not exceeded.
BestTypeLast(scores) ==
    LET i == CHOOSE k \in 1..Len(content_types) :
                /\ \A c \in Categories : scores[c] <= scores[content_types[k]]
                /\ \A j \in (k + 1)..Len(content_types) :
                        scores[content_types[j]] < scores[content_types[k]]
    IN content_types[i]

\* max(scores, key=scores.get): the first category, in the order the dict was
\* filled, whose score is not exceeded.
BestType(scores) ==
    LET i == CHOOSE k \in 1..Len(content_types) :
                /\ \A c \in Categories : scores[c] <= scores[content_types[k]]
                /\ \A j \in 1..(k - 1) : scores[content_types[j]] < scores[content_types[k]]
    IN content_types[i]

\* A tier result over a score map: the type and confidence are its best entry.
TierResult(scores) ==
    [type |-> BestType(scores), confidence |-> scores[BestType(scores)], scores |-> scores]

SumOver(scores) == scores["Task"] + scores["Concept"] + scores["Reference"]

\* fused_score = score1 * w1 + score2 * w2, in units of 1/(One*One).
WeightedScores(weights, tier1_result, tier2_result) ==
    [c \in Categories |->
        tier1_result.scores[c] * weights.tier1 + tier2_result.scores[c] * weights.tier2]

\* The normalization step: every score divided by the total when total > 0,
\* the scores as they are otherwise.
Normalize(fused_scores) ==
    LET total == SumOver(fused_scores) IN
    IF total > 0
    THEN [num |-> fused_scores, den |-> total]
    ELSE [num |-> fused_scores, den |-> One * One]

\* _generate_reasoning: which of its five sentences is returned.
GenerateReasoning(final_type, tier1, tier2) ==
    IF tier1.type = tier2.type /\ tier2.type = final_type THEN "Strong agreement"
    ELSE IF tier1.type = final_type /\ tier1.confidence * 10 > 8 * One
         THEN "Rule-based classifier dominates"
    ELSE IF tier2.type = final_type /\ tier2.confidence * 10 > 8 * One
         THEN "LLM classifier dominates"
    ELSE IF tier1.type # tier2.type THEN "Fusion resolved conflict"
    ELSE "Weighted fusion result"

\* FusionEngine.fuse(tier1_result, tier2_result)
FuseResult(eng, tier1_result, tier2_result) ==
    LET fused_scores == Normalize(WeightedScores(eng.weights, tier1_result, tier2_result))
        best_type    == BestType(fused_scores.num)
    IN [type         |-> best_type,
        confidence   |-> [num |-> fused_scores.num[best_type], den |-> fused_scores.den],
        scores       |-> fused_scores,
        reasoning    |-> GenerateReasoning(best_type, tier1_result, tier2_result),
        needs_review |-> fused_scores.num[best_type] * One
                            < eng.confidence_threshold * fused_scores.den,
        components   |-> [tier1 |-> [type |-> tier1_result.type,
                                      confidence |-> tier1_result.confidence],
                          tier2 |-> [type |-> tier2_result.type,
                                      confidence |-> tier2_result.confidence]]]

OthersIdleFusion == UNCHANGED <<pending_file, training_file, call, threads, loop, classifier>>

NoResult == [state |-> "none"]

\* FusionEngine(tier1_weight, tier2_weight, confidence_threshold)
Construct ==
    \E w1 \in WeightValues, w2 \in WeightValues, th \in ThresholdValues :
        LET eng == [weights |-> [tier1 |-> w1, tier2 |-> w2],
                    confidence_threshold |-> th]
        IN
        /\ engine.state = "none"
        /\ \/ /\ WeightsRejected(w1, w2) \/ RoundingDecides(w1, w2)
              /\ engine' = [state |-> "ValueError"] @@ eng
           \/ /\ ~WeightsRejected(w1, w2)
              /\ engine' = [state |-> "constructed"] @@ eng
        /\ UNCHANGED fused
        /\ OthersIdleFusion

\* engine.fuse(tier1_result, tier2_result) on a constructed engine.  fuse reads
\* nothing but its arguments and the engine, so one call per behaviour covers it.
Fuse ==
    \E s1 \in ScoreMaps, s2 \in ScoreMaps :
        /\ engine.state = "constructed"
        /\ fused.state = "none"
        /\ fused' = [state |-> "returned", tier1 |-> TierResult(s1), tier2 |-> TierResult(s2),
                     result |-> FuseResult(engine, TierResult(s1), TierResult(s2))]
        /\ UNCHANGED engine
        /\ OthersIdleFusion

InitFusion ==
    /\ engine = [state |-> "none"]
    /\ fused = NoResult
    /\ pending_file = AbsentFile
    /\ training_file = <<>>
    /\ call = [op |-> "none", chunk_id |-> "None", label |-> "None", outcome |-> "none"]
    /\ threads = Idle
    /\ loop = Idle
    /\ classifier = Idle

NextFusion == Construct \/ Fuse

SpecFusion == InitFusion /\ [][NextFusion]_vars

\* ---- claims about the fusion engine (checked under SpecFusion)

\* C9: every result of fuse has a score map that sums to 1, a category whose
\* fused score is maximal, and that score as its confidence.
C9_FusedScoresSumToOne ==
    fused.state = "returned" =>
        LET r == fused.result IN
        /\ SumOver(r.scores.num) = r.scores.den
        /\ \A c \in Categories : r.scores.num[c] <= r.scores.num[r.type]
        /\ r.confidence = [num |-> r.scores.num[r.type], den |-> r.scores.den]

CanonicalIndex(c) == CHOOSE k \in 1..Len(content_types) : content_types[k] = c

\* The categories whose fused score is the maximal one.
Maximal(scores) == {c \in Categories : \A d \in Categories : scores[d] <= scores[c]}

\* C18: when two or more categories share the maximal fused score, fuse returns
\* the one that comes first in the order Task, Concept, Reference, whichever
\* tier proposed which category.
C18_TieTakesFirstInCanonicalOrder ==
    fused.state = "returned" =>
        LET r == fused.result IN
        /\ r.type \in Maximal(r.scores.num)
        /\ \A c \in Maximal(r.scores.num) : CanonicalIndex(r.type) <= CanonicalIndex(c)

\* Two categories tie for the maximal fused score, the tiers proposed different
\* categories, and the returned one is not the proposal of the rule tier.
C18_Witness ==
    /\ fused.state = "returned"
    /\ Cardinality(Maximal(fused.result.scores.num)) >= 2
    /\ fused.tier1.type # fused.tier2.type
    /\ fused.tier1.type \in Maximal(fused.result.scores.num)
    /\ fused.result.type = fused.tier2.type

(***************************************************************************)
(* DITA documents.  A document is the XML string the loop passes around;   *)
(* the model keeps of it what the validator and the repairer read:         *)
(*   wf      whether lxml parses it                                        *)
(*   decl    whether the text starts with an XML declaration               *)
(*   layout  "pretty" when the text is what etree.tostring(pretty_print)   *)
(*           writes after the declaration, "raw" for any other text        *)
(*   root    the root tag; kids: the tags of its children, in order        *)
(*   body    the tags of the children of the first <taskbody>              *)
(*   steps   the first <steps> of the body: filler (it has text or         *)
(*           children that are no <step>), cmds (per <step>, whether it    *)
(*           has a <cmd>)                                                  *)
(*   ids     the id attributes in document order: the value as a sequence  *)
(*           of characters, dq (written in double quotes)                  *)
(* Ids are carried by elements no repair removes.                          *)
(***************************************************************************)

LowerLetters == {"a", "b", "d", "e", "i", "m", "n", "u"}
UpperLetters == {"A", "B"}
Digits == {"0", "1", "2", "3", "4", "5", "6", "7", "8", "9"}

\* str.lower on one character
Lower(ch) == IF ch = "A" THEN "a" ELSE IF ch = "B" THEN "b" ELSE ch

\* ^[a-zA-Z][a-zA-Z0-9_\-\.]*$
IdPatternMatches(id) ==
    /\ Len(id) > 0
    /\ id[1] \in LowerLetters \cup UpperLetters
    /\ \A k \in 2..Len(id) :
          id[k] \in LowerLetters \cup UpperLetters \cup Digits \cup {"_", "-", "."}

\* str.strip('_')
RECURSIVE LStrip(_)
LStrip(s) == IF s # <<>> /\ s[1] = "_" THEN LStrip(Tail(s)) ELSE s
RECURSIVE RStrip(_)
RStrip(s) ==
    IF s # <<>> /\ s[Len(s)] = "_" THEN RStrip(SubSeq(s, 1, Len(s) - 1)) ELSE s

\* Mutant of FixIdFormat: the 'id_' prefix for a non-letter start is left out.
FixIdFormatNoPrefix(invalid_id) ==
    LET lowered  == [k \in 1..Len(invalid_id) |-> Lower(invalid_id[k])]
        replaced == [k \in 1..Len(lowered) |->
                        IF lowered[k] \in LowerLetters \cup Digits \cup {"_", "-", "."}
                        THEN lowered[k] ELSE "_"]
        stripped == RStrip(LStrip(replaced))
    IN IF stripped = <<>> THEN <<"u", "n", "n", "a", "m", "e", "d">> ELSE stripped

\* IntelligentRepairer._fix_id_format
FixIdFormat(invalid_id) ==
    LET lowered  == [k \in 1..Len(invalid_id) |-> Lower(invalid_id[k])]
        replaced == [k \in 1..Len(lowered) |->
                        IF lowered[k] \in LowerLetters \cup Digits \cup {"_", "-", "."}
                        THEN lowered[k] ELSE "_"]
        stripped == RStrip(LStrip(replaced))
        prefixed == IF stripped # <<>> /\ stripped[1] \notin LowerLetters
                    THEN <<"i", "d", "_">> \o stripped
                    ELSE stripped
    IN IF prefixed = <<>> THEN <<"u", "n", "n", "a", "m", "e", "d">> ELSE prefixed

\* str(i) for one decimal digit
DigitChar(i) == <<"0", "1", "2", "3", "4", "5", "6", "7", "8", "9">>[i + 1]

\* A validation error: its type, its 'element' (a path of tags) and its 'id'.
\* Fields a kind of error does not carry are empty.
Error(type, element, id) == [type |-> type, element |-> element, id |-> id]

NoId == <<>>
NoElement == <<>>

\* Positions of tag among the children
Positions(children, tag) == {k \in 1..Len(children) : children[k] = tag}

Min(S) == CHOOSE x \in S : \A y \in S : x <= y

\* DITAOTValidator._check_element_order: the loop over expected_order from
\* position n on, with last_index as left by the tags before it.
RECURSIVE CheckElementOrderFrom(_, _, _, _)
CheckElementOrderFrom(children, expected_order, n, last_index) ==
    IF n > Len(expected_order) THEN <<>>
    ELSE LET tag       == expected_order[n]
             positions == Positions(children, tag)
         IN IF positions = {}
            THEN CheckElementOrderFrom(children, expected_order, n + 1, last_index)
            ELSE (IF Min(positions) < last_index
                  THEN <<Error("ElementOrderError", <<tag>>, NoId)>>
                  ELSE <<>>)
                 \o CheckElementOrderFrom(children, expected_order, n + 1, Min(positions))

CheckElementOrder(children, expected_order) ==
    CheckElementOrderFrom(children, expected_order, 1, 0)

\* The errors of the <step> children: one per step without <cmd>.
RECURSIVE StepErrorsFrom(_, _)
StepErrorsFrom(cmds, i) ==
    IF i > Len(cmds) THEN <<>>
    ELSE (IF cmds[i] THEN <<>>
          ELSE <<Error("MissingRequiredElement", <<"step", DigitChar(i), "cmd">>, NoId)>>)
         \o StepErrorsFrom(cmds, i + 1)

\* Mutant of ValidateTaskStructure: <steps> is looked for even when <taskbody>
\* is missing.
ValidateTaskStructureFlat(doc) ==
    (IF Positions(doc.kids, "title") = {}
     THEN <<Error("MissingRequiredElement", <<"title">>, NoId)>> ELSE <<>>)
    \o
    (IF Positions(doc.kids, "taskbody") = {}
     THEN <<Error("MissingRequiredElement", <<"taskbody">>, NoId)>> ELSE <<>>)
    \o
    (IF Positions(doc.body, "steps") = {}
     THEN <<Error("MissingRequiredElement", <<"steps">>, NoId)>>
     ELSE StepErrorsFrom(doc.steps.cmds, 1))
    \o
    CheckElementOrder(doc.kids,
        <<"title", "shortdesc", "prolog", "taskbody", "related-links">>)

\* DITAOTValidator._validate_task_structure
ValidateTaskStructure(doc) ==
    (IF Positions(doc.kids, "title") = {}
     THEN <<Error("MissingRequiredElement", <<"title">>, NoId)>> ELSE <<>>)
    \o
    (IF Positions(doc.kids, "taskbody") = {}
     THEN <<Error("MissingRequiredElement", <<"taskbody">>, NoId)>>
     ELSE CheckElementOrder(doc.body,
              <<"prereq", "context", "steps", "result", "example", "postreq">>)
          \o
          (IF Positions(doc.body, "steps") = {}
           THEN <<Error("MissingRequiredElement", <<"steps">>, NoId)>>
           ELSE (IF Len(doc.steps.cmds) = 0
                 THEN <<Error("EmptyElement", <<"steps">>, NoId)>> ELSE <<>>)
                \o StepErrorsFrom(doc.steps.cmds, 1)))
    \o
    CheckElementOrder(doc.kids,
        <<"title", "shortdesc", "prolog", "taskbody", "related-links">>)

\* DITAOTValidator._validate_concept_structure
ValidateConceptStructure(doc) ==
    (IF Positions(doc.kids, "title") = {}
     THEN <<Error("MissingRequiredElement", <<"title">>, NoId)>> ELSE <<>>)
    \o
    (IF Positions(doc.kids, "conbody") = {}
     THEN <<Error("MissingRequiredElement", <<"conbody">>, NoId)>> ELSE <<>>)
    \o
    CheckElementOrder(doc.kids,
        <<"title", "shortdesc", "prolog", "conbody", "related-links">>)

\* DITAOTValidator._validate_reference_structure
ValidateReferenceStructure(doc) ==
    (IF Positions(doc.kids, "title") = {}
     THEN <<Error("MissingRequiredElement", <<"title">>, NoId)>> ELSE <<>>)
    \o
    (IF Positions(doc.kids, "refbody") = {}
     THEN <<Error("MissingRequiredElement", <<"refbody">>, NoId)>> ELSE <<>>)
    \o
    CheckElementOrder(doc.kids,
        <<"title", "shortdesc", "prolog", "refbody", "related-links">>)

\* The id-uniqueness loop of _validate_common_rules: one error per element
\* whose id an earlier element already carries.
RECURSIVE DuplicateIdErrorsFrom(_, _)
DuplicateIdErrorsFrom(ids, k) ==
    IF k > Len(ids) THEN <<>>
    ELSE (IF \E j \in 1..(k - 1) : ids[j].id = ids[k].id
          THEN <<Error("DuplicateID", NoElement, ids[k].id)>> ELSE <<>>)
         \o DuplicateIdErrorsFrom(ids, k + 1)

\* The id-format loop of _validate_common_rules.
RECURSIVE IdFormatErrorsFrom(_, _)
IdFormatErrorsFrom(ids, k) ==
    IF k > Len(ids) THEN <<>>
    ELSE (IF ~IdPatternMatches(ids[k].id)
          THEN <<Error("InvalidIDFormat", NoElement, ids[k].id)>> ELSE <<>>)
         \o IdFormatErrorsFrom(ids, k + 1)

\* DITAOTValidator._validate_common_rules (its errors)
ValidateCommonRules(doc) ==
    DuplicateIdErrorsFrom(doc.ids, 1) \o IdFormatErrorsFrom(doc.ids, 1)

\* str.capitalize on the three root tags
Capitalize(root_tag) ==
    IF root_tag = "task" THEN "Task"
    ELSE IF root_tag = "concept" THEN "Concept"
    ELSE IF root_tag = "reference" THEN "Reference"
    ELSE root_tag

\* Mutant of BuiltinErrors: the common rules are checked only when the
\* type-specific checks found nothing.
BuiltinErrorsShortCircuit(doc, content_type) ==
    IF ~doc.wf THEN <<Error("XMLSyntaxError", NoElement, NoId)>>
    ELSE
    LET type_errors == IF content_type = "Task" \/ doc.root = "task"
                       THEN ValidateTaskStructure(doc)
                       ELSE IF content_type = "Concept" \/ doc.root = "concept"
                       THEN ValidateConceptStructure(doc)
                       ELSE IF content_type = "Reference" \/ doc.root = "reference"
                       THEN ValidateReferenceStructure(doc)
                       ELSE <<>>
    IN IF content_type = "None" /\ doc.root \notin {"task", "concept", "reference"}
       THEN <<Error("InvalidRootElement", NoElement, NoId)>>
       ELSE IF type_errors # <<>> THEN type_errors
       ELSE ValidateCommonRules(doc)

\* The error list _validate_builtin collects.
BuiltinErrors(doc, content_type) ==
    IF ~doc.wf THEN <<Error("XMLSyntaxError", NoElement, NoId)>>
    ELSE
    LET detected == IF content_type # "None" THEN content_type
                    ELSE IF doc.root \in {"task", "concept", "reference"}
                         THEN Capitalize(doc.root)
                         ELSE "Unknown"
        root_errors == IF content_type = "None"
                          /\ doc.root \notin {"task", "concept", "reference"}
                       THEN <<Error("InvalidRootElement", NoElement, NoId)>>
                       ELSE <<>>
        type_errors == IF detected = "Task" \/ doc.root = "task"
                       THEN ValidateTaskStructure(doc)
                       ELSE IF detected = "Concept" \/ doc.root = "concept"
                       THEN ValidateConceptStructure(doc)
                       ELSE IF detected = "Reference" \/ doc.root = "reference"
                       THEN ValidateReferenceStructure(doc)
                       ELSE <<>>
    IN root_errors \o type_errors \o ValidateCommonRules(doc)

\* DITAOTValidator.validate.  ValidationLoop builds the validator without a
\* DITA-OT directory, so validate always takes the built-in branch.
Validate(doc, content_type) ==
    LET errors == BuiltinErrors(doc, content_type) IN
    [is_valid |-> Len(errors) = 0, errors |-> errors]

(***************************************************************************)
(* IntelligentRepairer                                                     *)
(***************************************************************************)

simple_types == {"InvalidIDFormat", "MissingDeclaration", "EmptyElement", "DuplicateID"}

IsSimple(error) == error.type \in simple_types
IsComplex(error) == error.type \notin simple_types

\* IntelligentRepairer._classify_errors
ClassifyErrors(errors) ==
    [simple_errors  |-> SelectSeq(errors, IsSimple),
     complex_errors |-> SelectSeq(errors, IsComplex)]

\* etree.tostring(tree, encoding='unicode', pretty_print=True) with the
\* declaration put in front: lxml's layout, every attribute in double quotes.
Reserialize(doc) ==
    [doc EXCEPT !.decl = TRUE, !.layout = "pretty",
                !.ids = [k \in 1..Len(doc.ids) |-> [doc.ids[k] EXCEPT !.dq = TRUE]]]

\* fixed_xml.replace('id="<invalid>"', 'id="<valid>"'): every occurrence of the
\* double-quoted attribute text is rewritten.
ReplaceIdText(doc, invalid_id, valid_id) ==
    [doc EXCEPT !.ids = [k \in 1..Len(doc.ids) |->
        IF doc.ids[k].dq /\ doc.ids[k].id = invalid_id
        THEN [doc.ids[k] EXCEPT !.id = valid_id]
        ELSE doc.ids[k]]]

\* The number of elements up to position k that carry the id.
Occurrence(ids, k, id) == Cardinality({j \in 1..k : ids[j].id = id})

\* Mutant of FixDuplicateIds: every element carrying the id is renamed, the
\* first one too.
FixDuplicateIdsAll(doc, duplicate_id) ==
    IF ~doc.wf THEN doc
    ELSE Reserialize([doc EXCEPT !.ids = [k \in 1..Len(doc.ids) |->
            IF doc.ids[k].id = duplicate_id
            THEN [doc.ids[k] EXCEPT
                    !.id = duplicate_id
                           \o <<"_", DigitChar(Occurrence(doc.ids, k, duplicate_id))>>]
            ELSE doc.ids[k]]])

\* IntelligentRepairer._fix_duplicate_ids: the i-th element carrying the id,
\* i >= 2, is renamed <id>_<i>; a document that does not parse is returned as
\* it is.
FixDuplicateIds(doc, duplicate_id) ==
    IF ~doc.wf THEN doc
    ELSE Reserialize([doc EXCEPT !.ids = [k \in 1..Len(doc.ids) |->
            IF doc.ids[k].id = duplicate_id /\ Occurrence(doc.ids, k, duplicate_id) >= 2
            THEN [doc.ids[k] EXCEPT
                    !.id = duplicate_id
                           \o <<"_", DigitChar(Occurrence(doc.ids, k, duplicate_id))>>]
            ELSE doc.ids[k]]])

NotSteps(tag) == tag # "steps"

\* The steps field of a document whose body has no <steps>.
NoSteps == [filler |-> FALSE, cmds |-> <<>>]

\* The EmptyElement branch of _apply_rule_fixes: every descendant named
\* `element` with no text and no children is removed, and the tree is written
\* back.  The validator reports EmptyElement for <steps> only.
RemoveEmptyElements(doc, element) ==
    Reserialize(
        IF element = <<"steps">> /\ Positions(doc.body, "steps") # {}
           /\ ~doc.steps.filler /\ Len(doc.steps.cmds) = 0
        THEN [doc EXCEPT !.body = SelectSeq(doc.body, NotSteps), !.steps = NoSteps]
        ELSE doc)

Fix(type, element, id) == [type |-> type, element |-> element, id |-> id]

\* One pass of the loop of _apply_rule_fixes over one error.
ApplyRuleFix(acc, error) ==
    IF error.type = "InvalidIDFormat"
    THEN IF error.id # <<>>
         THEN [xml     |-> ReplaceIdText(acc.xml, error.id, FixIdFormat(error.id)),
               applied |-> Append(acc.applied, Fix(error.type, NoElement, error.id))]
         ELSE acc
    ELSE IF error.type = "MissingDeclaration"
    THEN IF ~acc.xml.decl
         THEN [xml     |-> [acc.xml EXCEPT !.decl = TRUE],
               applied |-> Append(acc.applied, Fix(error.type, NoElement, NoId))]
         ELSE acc
    ELSE IF error.type = "EmptyElement"
    THEN IF error.element # <<>> /\ acc.xml.wf
         THEN [xml     |-> RemoveEmptyElements(acc.xml, error.element),
               applied |-> Append(acc.applied, Fix(error.type, error.element, NoId))]
         ELSE acc
    ELSE IF error.type = "DuplicateID"
    THEN IF error.id # <<>>
         THEN [xml     |-> FixDuplicateIds(acc.xml, error.id),
               applied |-> Append(acc.applied, Fix(error.type, NoElement, error.id))]
         ELSE acc
    ELSE acc

RECURSIVE ApplyRuleFixesFrom(_, _, _)
ApplyRuleFixesFrom(acc, errors, k) ==
    IF k > Len(errors) THEN acc
    ELSE ApplyRuleFixesFrom(ApplyRuleFix(acc, errors[k]), errors, k + 1)

\* IntelligentRepairer._apply_rule_fixes
ApplyRuleFixes(dita_xml, errors) ==
    ApplyRuleFixesFrom([xml |-> dita_xml, applied |-> <<>>], errors, 1)

\* What the external service does with one repair prompt: the call raises, or
\* it returns text; the text, once stripped of code fences and white space,
\* parses as XML or does not.
LLMRaises == [kind |-> "raises"]
LLMNotXml == [kind |-> "not_xml"]
LLMXml(doc) == [kind |-> "xml", xml |-> doc]

\* The exceptions the except clause of _apply_llm_fixes catches (line 247).
CaughtByLLMFixes == {"Exception"}

\* Whether an exception leaves _apply_llm_fixes: the service call and the
\* extraction are inside the try block, and _extract_xml_from_response turns
\* the XMLSyntaxError of a text that does not parse into None.
LLMFixesRaise(llm) == llm.kind = "raises" /\ "Exception" \notin CaughtByLLMFixes

\* Mutant of ApplyLLMFixes: the answer is accepted without being parsed.
ApplyLLMFixesUnchecked(dita_xml, errors, llm) ==
    IF llm.kind = "xml" /\ llm.xml # dita_xml
    THEN [xml     |-> llm.xml,
          applied |-> <<Fix("LLMRepair", NoElement, NoId)>>]
    ELSE IF llm.kind = "not_xml"
    THEN [xml     |-> [dita_xml EXCEPT !.wf = FALSE],
          applied |-> <<Fix("LLMRepair", NoElement, NoId)>>]
    ELSE [xml |-> dita_xml, applied |-> <<>>]

\* IntelligentRepairer._apply_llm_fixes
ApplyLLMFixes(dita_xml, errors, llm) ==
    IF llm.kind = "xml" /\ llm.xml # dita_xml
    THEN [xml     |-> llm.xml,
          applied |-> <<Fix("LLMRepair", NoElement, NoId)>>]
    ELSE [xml |-> dita_xml, applied |-> <<>>]

\* [e for e in remaining if e not in errors]
Without(remaining, errors) ==
    LET Keep(e) == e \notin Range(errors) IN SelectSeq(remaining, Keep)

\* IntelligentRepairer.repair
Repair(dita_xml, errors, use_ai, llm) ==
    LET classes    == ClassifyErrors(errors)
        rule       == IF Len(classes.simple_errors) > 0
                      THEN ApplyRuleFixes(dita_xml, classes.simple_errors)
                      ELSE [xml |-> dita_xml, applied |-> <<>>]
        after_rule == IF Len(rule.applied) > 0 THEN rule.xml ELSE dita_xml
        left_rule  == IF Len(rule.applied) > 0
                      THEN Without(errors, classes.simple_errors)
                      ELSE errors
        model      == IF Len(classes.complex_errors) > 0 /\ use_ai
                      THEN ApplyLLMFixes(after_rule, classes.complex_errors, llm)
                      ELSE [xml |-> after_rule, applied |-> <<>>]
        after_llm  == IF Len(model.applied) > 0 THEN model.xml ELSE after_rule
        left_llm   == IF Len(model.applied) > 0
                      THEN Without(left_rule, classes.complex_errors)
                      ELSE left_rule
    IN [success          |-> Len(left_llm) = 0,
        repaired_xml     |-> after_llm,
        applied_fixes    |-> rule.applied \o model.applied,
        remaining_errors |-> left_llm]

\* The calls repair makes, in their order: _apply_rule_fixes when there are
\* simple errors, then _apply_llm_fixes, which calls the service once, when
\* there are complex errors and use_ai is set.  Each with the document and
\* the errors it is given, and the service call with what it answered.
TierCalls(dita_xml, errors, use_ai, llm) ==
    LET classes    == ClassifyErrors(errors)
        rule       == IF Len(classes.simple_errors) > 0
                      THEN ApplyRuleFixes(dita_xml, classes.simple_errors)
                      ELSE [xml |-> dita_xml, applied |-> <<>>]
        after_rule == IF Len(rule.applied) > 0 THEN rule.xml ELSE dita_xml
    IN (IF Len(classes.simple_errors) > 0
        THEN <<[tier |-> "rules", xml |-> dita_xml, errors |-> classes.simple_errors,
                answer |-> "none"]>>
        ELSE <<>>)
       \o
       (IF Len(classes.complex_errors) > 0 /\ use_ai
        THEN <<[tier |-> "llm", xml |-> after_rule, errors |-> classes.complex_errors,
                answer |-> llm.kind]>>
        ELSE <<>>)

(***************************************************************************)
(* ValidationLoop.run, cut at the validation pass, the repair pass and the *)
(* code after the loop.                                                    *)
(***************************************************************************)

\* ---- bounds of the loop model
MaxIterations == 3     \* max_iterations ranges over 0..MaxIterations
MaxSteps == 2          \* <step> children of <steps>
MaxIds == 2            \* id attributes in a document

\* Sequences over S of length at most n
SeqUpTo(S, n) == UNION {[1..m -> S] : m \in 0..n}

\* The shapes of <steps>: without children (with or without text) or with
\* 1..MaxSteps <step> children.
StepsShapes ==
    {[filler |-> f, cmds |-> <<>>] : f \in BOOLEAN}
    \cup {[filler |-> FALSE, cmds |-> c] : c \in SeqUpTo(BOOLEAN, MaxSteps) \ {<<>>}}

\* Task topics: the root's children, the body's children, the steps.
TaskStructures ==
    {[root |-> "task", kids |-> <<"title", "taskbody">>, body |-> b, steps |-> st] :
        b \in {<<"steps">>, <<"steps", "context">>}, st \in StepsShapes}
    \cup
    {[root |-> "task", kids |-> k, body |-> <<"steps">>,
      steps |-> [filler |-> FALSE, cmds |-> <<TRUE>>]] :
        k \in {<<"taskbody", "title">>, <<"taskbody">>}}
    \cup
    {[root |-> "task", kids |-> <<"title", "taskbody">>, body |-> <<>>, steps |-> NoSteps],
     [root |-> "task", kids |-> <<"title">>, body |-> <<>>, steps |-> NoSteps]}

\* Concept and reference topics, and a root that is none of the three.
OtherStructures ==
    {[root |-> "concept", kids |-> k, body |-> <<>>, steps |-> NoSteps] :
        k \in {<<"title", "conbody">>, <<"conbody", "title">>, <<"title">>}}
    \cup
    {[root |-> "reference", kids |-> k, body |-> <<>>, steps |-> NoSteps] :
        k \in {<<"title", "refbody">>, <<"title">>}}
    \cup
    {[root |-> "topic", kids |-> <<"title", "body">>, body |-> <<>>, steps |-> NoSteps]}

\* A task topic without structural errors, and one whose step lacks <cmd>.
ValidTask ==
    [root |-> "task", kids |-> <<"title", "taskbody">>, body |-> <<"steps">>,
     steps |-> [filler |-> FALSE, cmds |-> <<TRUE>>]]
StepWithoutCmd ==
    [root |-> "task", kids |-> <<"title", "taskbody">>, body |-> <<"steps">>,
     steps |-> [filler |-> FALSE, cmds |-> <<FALSE>>]]

\* id attributes: a valid id, the id a renamed duplicate of it gets, an id
\* starting with a digit (in double and in single quotes), an id with an
\* upper-case letter and a blank, and the empty id.
IdAttributes ==
    {[id |-> <<"a">>, dq |-> TRUE],
     [id |-> <<"a", "_", "2">>, dq |-> TRUE],
     [id |-> <<"1">>, dq |-> TRUE],
     [id |-> <<"1">>, dq |-> FALSE],
     [id |-> <<"A", " ">>, dq |-> TRUE],
     [id |-> <<>>, dq |-> TRUE]}

\* The two ids of IdAttributes that match the id pattern.
WellFormedIds == {a \in IdAttributes : a.dq /\ IdPatternMatches(a.id)}

\* The ids of a document, in document order: up to MaxIds of any kind, and
\* one more when all of them match the pattern.
IdLists == SeqUpTo(IdAttributes, MaxIds) \cup SeqUpTo(WellFormedIds, MaxIds + 1)

Document(structure, ids, layout) ==
    [wf |-> TRUE, decl |-> TRUE, layout |-> layout, root |-> structure.root,
     kids |-> structure.kids, body |-> structure.body, steps |-> structure.steps,
     ids |-> ids]

\* A string lxml does not parse.
NotWellFormed ==
    [wf |-> FALSE, decl |-> FALSE, layout |-> "raw", root |-> "none",
     kids |-> <<>>, body |-> <<>>, steps |-> NoSteps, ids |-> <<>>]

\* lxml writes every attribute in double quotes.
Writable(ids, layout) == layout = "pretty" => \A k \in 1..Len(ids) : ids[k].dq

\* The documents handed to run.
InputDocuments ==
    {Document(st, <<[id |-> <<"a">>, dq |-> TRUE]>>, layout) :
        st \in TaskStructures \cup OtherStructures, layout \in {"raw", "pretty"}}
    \cup
    {d \in {Document(st, ids, layout) :
                st \in {ValidTask, StepWithoutCmd}, ids \in IdLists,
                layout \in {"raw", "pretty"}} : Writable(d.ids, d.layout)}
    \cup
    {[Document(ValidTask, <<>>, "raw") EXCEPT !.decl = FALSE], NotWellFormed}

\* What the external service may answer to a repair prompt for current_xml:
\* it raises, it answers text that is no XML, it answers a valid task, a task
\* that still lacks a <cmd>, or the prompt's document as it is.  An answer is
\* stripped of surrounding white space, which lxml's layout ends with.
LLMAnswers(current_xml) ==
    {LLMRaises, LLMNotXml}
    \cup {LLMXml(Document(st, <<[id |-> <<"a">>, dq |-> TRUE]>>, "raw")) :
            st \in {ValidTask, StepWithoutCmd}}
    \cup {LLMXml(d) : d \in {x \in {current_xml} : x.wf /\ x.layout = "raw"}}

ContentTypes == {"None", "Task", "Concept"}

\* Mutant of LoopCondition: the bound is included.
LoopConditionInclusive(iteration, max_iterations) == iteration <= max_iterations

\* while iteration < self.max_iterations
LoopCondition(iteration, max_iterations) == iteration < max_iterations

\* Mutant of RepairCondition: the repair runs in the last iteration too.
RepairConditionAlways(iteration, max_iterations) == iteration <= max_iterations

\* if iteration < self.max_iterations (the repair is skipped in the last iteration)
RepairCondition(iteration, max_iterations) == iteration < max_iterations

OthersIdleLoop == UNCHANGED <<pending_file, training_file, call, threads, engine, fused, classifier>>

\* Lines 75-101: the validation pass of one iteration.
LoopValidate ==
    /\ loop.pc = "loop"
    /\ LoopCondition(loop.iteration, loop.max_iterations)
    /\ LET iteration         == loop.iteration + 1
           validation_result == Validate(loop.current_xml, loop.content_type)
           recorded          == Append(loop.result.validation_history,
                                       [iteration |-> iteration, result |-> validation_result])
       IN IF validation_result.is_valid
          THEN loop' = [loop EXCEPT
                  !.iteration = iteration,
                  !.pc = "break",
                  !.result = [@ EXCEPT !.validation_history = recorded,
                                       !.success = TRUE,
                                       !.final_xml = loop.current_xml,
                                       !.iterations = iteration,
                                       !.final_validation = <<validation_result>>]]
          ELSE loop' = [loop EXCEPT
                  !.iteration = iteration,
                  !.pc = IF RepairCondition(iteration, loop.max_iterations)
                         THEN "repair" ELSE "loop",
                  !.result = [@ EXCEPT !.validation_history = recorded]]
    /\ OthersIdleLoop

\* Mutant of ValidationResultOf: the result of the first pass of the run.
FirstValidationResultOf(validation_history) == validation_history[1].result

\* validation_result at line 107: the result of the pass of this iteration,
\* the last one appended to the history.
ValidationResultOf(validation_history) ==
    validation_history[Len(validation_history)].result

\* Lines 104-130: the repair pass of one iteration.  loop.calls logs the
\* tiers the repair ran, with the iteration they ran in.
LoopRepair ==
    /\ loop.pc = "repair"
    /\ \E llm \in LLMAnswers(loop.current_xml) :
        LET validation_result == ValidationResultOf(loop.result.validation_history)
            repair_result == Repair(loop.current_xml, validation_result.errors,
                                    loop.use_ai, llm)
            recorded      == Append(loop.result.repair_history,
                                    [iteration |-> loop.iteration, result |-> repair_result])
            tier_calls    == TierCalls(loop.current_xml, validation_result.errors,
                                       loop.use_ai, llm)
            calls         == loop.calls \o [n \in 1..Len(tier_calls) |->
                                [iteration |-> loop.iteration, call |-> tier_calls[n]]]
        IN IF (\E n \in 1..Len(tier_calls) : tier_calls[n].tier = "llm") /\ LLMFixesRaise(llm)
           THEN loop' = [loop EXCEPT !.pc = "raised", !.calls = calls]
           ELSE IF repair_result.success \/ Len(repair_result.applied_fixes) > 0
           THEN loop' = [loop EXCEPT
                   !.current_xml = repair_result.repaired_xml,
                   !.pc = "loop",
                   !.calls = calls,
                   !.result = [@ EXCEPT !.repair_history = recorded]]
           ELSE loop' = [loop EXCEPT
                   !.pc = "break",
                   !.calls = calls,
                   !.result = [@ EXCEPT !.repair_history = recorded]]
    /\ OthersIdleLoop

\* Mutant of FinalValidation: a failed run reports the last validation pass
\* of the loop instead of validating the document again.
FinalValidationFromHistory(result, current_xml, content_type) ==
    IF result.success \/ Len(result.validation_history) = 0 THEN result.final_validation
    ELSE <<result.validation_history[Len(result.validation_history)].result>>

\* Lines 138-141: final_validation stays what the successful pass stored;
\* after a failed run the document is validated once more.
FinalValidation(result, current_xml, content_type) ==
    IF result.success THEN result.final_validation
    ELSE <<Validate(current_xml, content_type)>>

\* Lines 134-156: the code after the loop.
LoopFinish ==
    /\ \/ loop.pc = "break"
       \/ loop.pc = "loop" /\ ~LoopCondition(loop.iteration, loop.max_iterations)
    /\ loop' = [loop EXCEPT
            !.pc = "done",
            !.result = [@ EXCEPT
                !.final_xml = loop.current_xml,
                !.iterations = loop.iteration,
                !.final_validation =
                    FinalValidation(loop.result, loop.current_xml, loop.content_type)]]
    /\ OthersIdleLoop

\* What CustomRulesChecker.check finds in the final document: nothing, issues
\* of severity warning only, or an issue of severity error.  The rules read
\* text lengths, nesting depths and step counts, which a document of the
\* model does not keep.
CustomFindings == {"none", "warning", "error"}

\* Whether _validate_common_rules may, and whether it must, put an EmptyElement
\* warning in its result: a document that does not parse has none, a <steps>
\* without text and children has one, other elements may be empty or not.
ValidationWarnings(doc) ==
    IF ~doc.wf THEN {FALSE}
    ELSE IF Positions(doc.body, "steps") # {} /\ ~doc.steps.filler
            /\ Len(doc.steps.cmds) = 0
    THEN {TRUE}
    ELSE BOOLEAN

\* Mutant of DetermineOverallStatus: warnings are not looked at.
DetermineOverallStatusNoWarnings(is_valid, has_validation_warnings, custom) ==
    IF ~is_valid \/ custom = "error" THEN "failed" ELSE "passed"

\* QualityReporter._determine_overall_status
DetermineOverallStatus(is_valid, has_validation_warnings, custom) ==
    IF ~is_valid \/ custom = "error" THEN "failed"
    ELSE IF has_validation_warnings \/ custom = "warning" THEN "passed_with_warnings"
    ELSE "passed"

\* QAManager.process after the loop (steps 2 to 4): the custom checks and the
\* final validation of final_xml, and the status of the quality report.
GenerateReport ==
    /\ loop.pc = "done"
    /\ \E custom \in CustomFindings,
          warnings \in ValidationWarnings(loop.result.final_xml) :
        LET final_validation == Validate(loop.result.final_xml, loop.content_type)
        IN loop' = [loop EXCEPT
                !.pc = "reported",
                !.report = <<[overall_status |->
                                DetermineOverallStatus(final_validation.is_valid,
                                                       warnings, custom),
                              validation_warnings |-> warnings,
                              custom |-> custom]>>]
    /\ OthersIdleLoop

InitLoop ==
    /\ \E dita_xml \in InputDocuments, content_type \in ContentTypes,
          max_iterations \in 0..MaxIterations, use_ai \in BOOLEAN :
        loop = [pc |-> "loop",
                max_iterations |-> max_iterations,
                use_ai |-> use_ai,
                dita_xml |-> dita_xml,
                content_type |-> content_type,
                current_xml |-> dita_xml,
                iteration |-> 0,
                result |-> [success |-> FALSE,
                            final_xml |-> dita_xml,
                            iterations |-> 0,
                            validation_history |-> <<>>,
                            repair_history |-> <<>>,
                            final_validation |-> <<>>],
                calls |-> <<>>,
                report |-> <<>>]
    /\ pending_file = AbsentFile
    /\ training_file = <<>>
    /\ call = [op |-> "none", chunk_id |-> "None", label |-> "None", outcome |-> "none"]
    /\ threads = Idle
    /\ engine = Idle
    /\ fused = Idle
    /\ classifier = Idle

NextLoop == LoopValidate \/ LoopRepair \/ LoopFinish \/ GenerateReport

SpecLoop == InitLoop /\ [][NextLoop]_vars

(***************************************************************************)
(* Properties of the convergence loop.                                     *)
(***************************************************************************)

\* C1: in every state of every run, the iteration counter, the reported
\* iteration count and the number of validation passes recorded in
\* validation_history are at most max_iterations.
C1_IterationsWithinBound ==
    /\ loop.iteration <= loop.max_iterations
    /\ loop.result.iterations <= loop.max_iterations
    /\ Len(loop.result.validation_history) <= loop.max_iterations

\* A run that used up a positive bound with repairs in between and failed.
C1_Witness ==
    /\ loop.pc = "done"
    /\ loop.max_iterations >= 2
    /\ loop.result.iterations = loop.max_iterations
    /\ Len(loop.result.validation_history) = loop.max_iterations
    /\ Len(loop.result.repair_history) = loop.max_iterations - 1
    /\ ~loop.result.success

\* C2: when run returns, success is true exactly when final_validation, the
\* latest validation of the returned document, reports zero errors.
C2_SuccessIffNoErrors ==
    loop.pc = "done" =>
        (loop.result.success <=> Len(loop.result.final_validation[1].errors) = 0)

\* C3: a repair pass that returns the document it was given ends the loop in
\* that iteration with success false, and from there on nothing is appended
\* to validation_history or repair_history.
C3_NoProgressEndsLoop ==
    [][ /\ (/\ loop.pc = "repair"
            /\ Len(loop'.result.repair_history) = Len(loop.result.repair_history) + 1
            /\ loop'.result.repair_history[Len(loop'.result.repair_history)]
                    .result.repaired_xml = loop.current_xml)
           => (loop'.pc = "break" /\ ~loop'.result.success)
        /\ (loop.pc = "break" /\ ~loop.result.success)
           => /\ loop'.pc = "done"
              /\ ~loop'.result.success
              /\ loop'.result.validation_history = loop.result.validation_history
              /\ loop'.result.repair_history = loop.result.repair_history]_vars

(***************************************************************************)
(* LLMClassifier (Tier 2).  Confidences and scores count units of 1/One.   *)
(* The external service is ai_service.generate: it raises, or it returns   *)
(* text; the text holds no {...}, holds braces json.loads refuses, or      *)
(* holds a JSON object.  Of the object the model keeps the four keys       *)
(* _parse_response reads; a key is <<>> when absent and <<value>> when     *)
(* present.                                                                *)
(***************************************************************************)

\* Values of "type": strings, or a JSON value that is no string.
TypeStrings == {"Task", "task", "REFERENCE", "Concept", "topic"}
TypeValues == {[is_str |-> TRUE, v |-> t] : t \in TypeStrings}
              \cup {[is_str |-> FALSE, v |-> "5"]}

\* Values of "confidence": what float() converts (-0.5, 0.3, 0.9, 1.5), a
\* string it refuses ("high") and null.
ConfidenceValues ==
    {[json |-> "number", v |-> n] : n \in {-100, 60, 180, 300}}
    \cup {[json |-> "string", v |-> 0], [json |-> "null", v |-> 0]}

\* A score map of the response: per category a score, or Missing for a key
\* the object does not have.
Missing == -1
ResponseScoreValues == {Missing, 0, 100}
ResponseScoreMaps == [Categories -> ResponseScoreValues]

Optional(S) == {<<>>} \cup {<<x>> : x \in S}

JsonObjects ==
    [type : Optional(TypeValues), confidence : Optional(ConfidenceValues),
     scores : Optional(ResponseScoreMaps), reasoning : Optional({"text"})]

NoObject ==
    [type |-> <<>>, confidence |-> <<>>, scores |-> <<>>, reasoning |-> <<>>]

\* What ai_service.generate does with one prompt.
ServiceOutcomes ==
    {[kind |-> k, object |-> NoObject] : k \in {"raises", "no_json", "bad_json"}}
    \cup {[kind |-> "json", object |-> o] : o \in JsonObjects}

\* str.capitalize on the strings of TypeStrings
CapitalizeType(t) ==
    IF t \in {"Task", "task"} THEN "Task"
    ELSE IF t = "REFERENCE" THEN "Reference"
    ELSE IF t = "Concept" THEN "Concept"
    ELSE "Topic"

\* max(0.0, min(1.0, x))
Clamp(x) == IF x < 0 THEN 0 ELSE IF x > One THEN One ELSE x

NoException == "none"

\* The exception _parse_response ends with, NoException when it returns.
ParseException(response) ==
    LET o == response.object IN
    IF response.kind = "no_json" THEN "ValueError"
    ELSE IF response.kind = "bad_json" THEN "JSONDecodeError"
    ELSE IF o.type = <<>> \/ o.confidence = <<>> \/ o.scores = <<>> \/ o.reasoning = <<>>
         THEN "ValueError"
    ELSE IF ~o.type[1].is_str THEN "AttributeError"
    ELSE IF o.confidence[1].json = "string" THEN "ValueError"
    ELSE IF o.confidence[1].json = "null" THEN "TypeError"
    ELSE NoException

\* The dict _parse_response returns: type capitalized and defaulted to
\* Concept, confidence clamped, scores and reasoning as the response has them.
ParseResponse(response) ==
    LET o == response.object
        t == CapitalizeType(o.type[1].v)
    IN [type       |-> IF t \in {"Task", "Concept", "Reference"} THEN t ELSE "Concept",
        confidence |-> Clamp(o.confidence[1].v),
        scores     |-> o.scores[1],
        reasoning  |-> "response"]

\* The dict returned when the classifier is disabled (lines 158-163).
DisabledResult ==
    [type |-> "Concept", confidence |-> 60,
     scores |-> [c \in Categories |-> IF c = "Concept" THEN 68 ELSE 66],
     reasoning |-> "LLM disabled"]

\* The dict returned by the except clause (lines 189-194).
FallbackResult ==
    [type |-> "Concept", confidence |-> 60,
     scores |-> [c \in Categories |-> IF c = "Concept" THEN 68 ELSE 66],
     reasoning |-> "Error"]

\* Mutant of Caught: only ValueError and its subclasses are caught.
CaughtValueErrorOnly(exception) == exception \in {"ValueError", "JSONDecodeError"}

\* except Exception: every exception the try block can end with is caught.
Caught(exception) ==
    exception \in {"Exception", "ValueError", "JSONDecodeError", "TypeError",
                   "AttributeError"}

OthersIdleLLM ==
    UNCHANGED <<pending_file, training_file, call, threads, engine, fused, loop>>

\* classify with use_ai = False: lines 157-163.
LLMDisabled ==
    /\ classifier.pc = "called"
    /\ ~classifier.use_ai
    /\ classifier' = [classifier EXCEPT !.pc = "returned", !.result = <<DisabledResult>>]
    /\ OthersIdleLLM

\* Lines 166-175: the prompt is built and the service is called.
LLMGenerate ==
    /\ classifier.pc = "called"
    /\ classifier.use_ai
    /\ \E response \in ServiceOutcomes :
        classifier' = [classifier EXCEPT !.pc = "responded", !.response = response]
    /\ OthersIdleLLM

\* Lines 178-194: the response is parsed and the result returned, or the
\* exception of the try block is handled.
LLMReturn ==
    /\ classifier.pc = "responded"
    /\ LET exception == IF classifier.response.kind = "raises" THEN "Exception"
                        ELSE ParseException(classifier.response)
       IN IF exception = NoException
          THEN classifier' = [classifier EXCEPT
                  !.pc = "returned", !.result = <<ParseResponse(classifier.response)>>]
          ELSE IF Caught(exception)
          THEN classifier' = [classifier EXCEPT
                  !.pc = "returned", !.result = <<FallbackResult>>]
          ELSE classifier' = [classifier EXCEPT !.pc = "raised", !.raised = exception]
    /\ OthersIdleLLM

InitLLM ==
    /\ \E use_ai \in BOOLEAN :
        classifier = [pc |-> "called", use_ai |-> use_ai,
                      response |-> [kind |-> "none", object |-> NoObject],
                      result |-> <<>>, raised |-> NoException]
    /\ pending_file = AbsentFile
    /\ training_file = <<>>
    /\ call = [op |-> "none", chunk_id |-> "None", label |-> "None", outcome |-> "none"]
    /\ threads = Idle
    /\ engine = Idle
    /\ fused = Idle
    /\ loop = Idle

NextLLM == LLMDisabled \/ LLMGenerate \/ LLMReturn

SpecLLM == InitLLM /\ [][NextLLM]_vars

\* The outcomes of the service call C11 lists: an exception, a response
\* without JSON, a JSON object missing a required key, a confidence that is
\* no number.
FailedOutcome(response) ==
    \/ response.kind \in {"raises", "no_json", "bad_json"}
    \/ /\ response.kind = "json"
       /\ \/ response.object.type = <<>>
          \/ response.object.confidence = <<>>
          \/ response.object.scores = <<>>
          \/ response.object.reasoning = <<>>
          \/ response.object.confidence[1].json # "number"

\* C11: classify never raises, and after a failed service call or an
\* unparseable response it returns the fixed fallback (Concept, 0.3, scores
\* 0.33 / 0.34 / 0.33) whose reasoning carries the error.
C11_ClassifyNeverRaises ==
    /\ classifier.pc # "raised"
    /\ (classifier.pc = "returned" /\ classifier.use_ai
            /\ FailedOutcome(classifier.response))
        => classifier.result = <<FallbackResult>>

\* The service answered a JSON object whose confidence is null, and classify
\* returned the fallback.
C11_Witness ==
    /\ classifier.pc = "returned"
    /\ classifier.response.kind = "json"
    /\ classifier.response.object.confidence = <<[json |-> "null", v |-> 0]>>
    /\ classifier.response.object.type # <<>>
    /\ classifier.response.object.scores # <<>>
    /\ classifier.response.object.reasoning # <<>>
    /\ classifier.result = <<FallbackResult>>

\* C19: every result classify returns from a parsed response has a canonical
\* category, a confidence in [0, 1], and a score map that has every canonical
\* category and sums to 1.
C19_ParsedResultNormalized ==
    (classifier.pc = "returned" /\ classifier.use_ai
        /\ ~FailedOutcome(classifier.response)
        /\ ParseException(classifier.response) = NoException)
    => LET r == classifier.result[1] IN
       /\ r.type \in Categories
       /\ r.confidence >= 0 /\ r.confidence <= One
       /\ \A c \in Categories : r.scores[c] # Missing
       /\ SumOver(r.scores) = One

(***************************************************************************)
(* RuleBasedClassifier (Tier 1).  A rule adds a multiple of 0.01 to the    *)
(* score of one category; the accumulated scores count units of 0.01 and   *)
(* a normalized score v / total_score is kept as the fraction num / den.   *)
(* Of the title the model keeps which of the three keyword lists have a    *)
(* word in it.                                                             *)
(***************************************************************************)

KeywordLists == {"task_keywords", "ref_keywords", "concept_keywords"}

\* chunk['title'], by the keyword lists that match it.
Titles == {{}, {"task_keywords"}, {"ref_keywords"}, {"concept_keywords"}, KeywordLists}

\* The features the rules read; 0 and FALSE are also what features.get
\* returns for a missing key.
FeatureDicts ==
    [has_numbered_list : BOOLEAN, has_bullet_list : BOOLEAN, has_table : BOOLEAN,
     table_count : {0, 2}, imperative_verbs : {0, 3, 5}, action_verbs : {1, 4, 7},
     word_count : {100, 250, 400}, code_blocks : {0, 3}, named_entities : {0, 3, 5, 6},
     has_definition : BOOLEAN, is_statements : {0, 3, 4},
     noun_count : {1, 2}, verb_count : {1}]

\* The nineteen rules in the order of the code: the condition of the if, the
\* category whose score grows, the increment and the name appended.
Rules(chunk, features) ==
    << [when |-> features.has_numbered_list /\ features.imperative_verbs >= 5,
        type |-> "Task", add |-> 50, name |-> "strong_task_numbered_imperatives"],
       [when |-> features.has_numbered_list /\ features.action_verbs >= 5,
        type |-> "Task", add |-> 40, name |-> "numbered_list_with_actions"],
       [when |-> features.has_bullet_list /\ features.action_verbs >= 4,
        type |-> "Task", add |-> 30, name |-> "bullet_list_with_actions"],
       [when |-> features.imperative_verbs >= 3,
        type |-> "Task", add |-> 25, name |-> "high_imperative_verbs"],
       [when |-> "task_keywords" \in chunk.title,
        type |-> "Task", add |-> 20, name |-> "task_title_keyword"],
       [when |-> features.action_verbs >= 7,
        type |-> "Task", add |-> 15, name |-> "high_action_verb_density"],
       [when |-> features.table_count >= 2,
        type |-> "Reference", add |-> 50, name |-> "strong_reference_multiple_tables"],
       [when |-> features.has_table /\ features.word_count < 200,
        type |-> "Reference", add |-> 40, name |-> "table_low_text"],
       [when |-> "ref_keywords" \in chunk.title,
        type |-> "Reference", add |-> 35, name |-> "reference_title_keyword"],
       [when |-> features.code_blocks >= 3 /\ features.word_count < 300,
        type |-> "Reference", add |-> 30, name |-> "code_heavy_low_text"],
       [when |-> features.has_table,
        type |-> "Reference", add |-> 20, name |-> "has_table"],
       [when |-> features.named_entities >= 5,
        type |-> "Reference", add |-> 15, name |-> "high_named_entities"],
       [when |-> features.has_definition /\ features.is_statements >= 4,
        type |-> "Concept", add |-> 50, name |-> "strong_concept_definition_statements"],
       [when |-> features.has_definition,
        type |-> "Concept", add |-> 35, name |-> "has_definition_pattern"],
       [when |-> features.is_statements >= 3,
        type |-> "Concept", add |-> 30, name |-> "high_is_statements"],
       [when |-> "concept_keywords" \in chunk.title,
        type |-> "Concept", add |-> 30, name |-> "concept_title_keyword"],
       [when |-> features.action_verbs < 2 /\ features.noun_count > features.verb_count,
        type |-> "Concept", add |-> 25, name |-> "descriptive_language"],
       [when |-> 3 <= features.named_entities /\ features.named_entities <= 5,
        type |-> "Concept", add |-> 15, name |-> "moderate_named_entities"],
       [when |-> ~features.has_numbered_list /\ ~features.has_bullet_list
                    /\ ~features.has_table,
        type |-> "Concept", add |-> 10, name |-> "pure_text_no_structure"] >>

RECURSIVE Accumulated(_, _)
\* scores[type] after the rules of the sequence have been tried.
Accumulated(rules, type) ==
    IF rules = <<>> THEN 0
    ELSE (IF Head(rules).when /\ Head(rules).type = type THEN Head(rules).add ELSE 0)
         + Accumulated(Tail(rules), type)

\* matched_rules after the rules of the sequence have been tried.
MatchedRules(rules) ==
    LET matched == SelectSeq(rules, LAMBDA r : r.when)
    IN [i \in 1..Len(matched) |-> matched[i].name]

\* Mutant of NormalizeRuleScores: a zero total leaves the scores as they are.
NormalizeRuleScoresNoDefault(scores, matched_rules) ==
    LET total_score == SumOver(scores) IN
    IF total_score > 0
    THEN [scores |-> [num |-> scores, den |-> total_score], matched_rules |-> matched_rules]
    ELSE [scores |-> [num |-> scores, den |-> 1], matched_rules |-> matched_rules]

\* Lines 161-167: the scores divided by their total, or the default scores
\* and the default rule when the total is not positive.
NormalizeRuleScores(scores, matched_rules) ==
    LET total_score == SumOver(scores) IN
    IF total_score > 0
    THEN [scores |-> [num |-> scores, den |-> total_score], matched_rules |-> matched_rules]
    ELSE [scores |-> [num |-> [c \in Categories |-> IF c = "Concept" THEN 1 ELSE 0],
                      den |-> 1],
          matched_rules |-> Append(matched_rules, "default_concept")]

\* RuleBasedClassifier.classify(chunk, features)
RuleClassifyResult(chunk, features) ==
    LET rules      == Rules(chunk, features)
        normalized == NormalizeRuleScores([c \in Categories |-> Accumulated(rules, c)],
                                          MatchedRules(rules))
        best_type  == BestType(normalized.scores.num)
    IN [type          |-> best_type,
        confidence    |-> [num |-> normalized.scores.num[best_type],
                           den |-> normalized.scores.den],
        scores        |-> normalized.scores,
        matched_rules |-> normalized.matched_rules]

\* One call of classify on the tier-1 classifier, which keeps no state.
RuleClassify ==
    /\ classifier.pc = "called"
    /\ classifier' = [classifier EXCEPT
            !.pc = "returned",
            !.result = <<RuleClassifyResult(classifier.chunk, classifier.features)>>]
    /\ OthersIdleLLM

InitRule ==
    /\ \E title \in Titles, features \in FeatureDicts :
        classifier = [pc |-> "called", chunk |-> [title |-> title],
                      features |-> features, result |-> <<>>]
    /\ pending_file = AbsentFile
    /\ training_file = <<>>
    /\ call = [op |-> "none", chunk_id |-> "None", label |-> "None", outcome |-> "none"]
    /\ threads = Idle
    /\ engine = Idle
    /\ fused = Idle
    /\ loop = Idle

NextRule == RuleClassify

SpecRule == InitRule /\ [][NextRule]_vars

\* No if of the nineteen rules was taken for the input of the call.
NoRuleMatched ==
    \A i \in 1..Len(Rules(classifier.chunk, classifier.features)) :
        ~Rules(classifier.chunk, classifier.features)[i].when

\* C17: when no rule matched, so that the accumulated scores total zero, the
\* rule classifier returns Concept at confidence 1.0 with the default rule
\* recorded; and the score map it returns sums to 1.0 for every input.
C17_ZeroTotalYieldsDefault ==
    classifier.pc = "returned" =>
        LET r == classifier.result[1] IN
        /\ SumOver(r.scores.num) = r.scores.den
        /\ r.scores.den > 0
        /\ NoRuleMatched =>
              /\ r.type = "Concept"
              /\ r.confidence.num = r.confidence.den
              /\ r.matched_rules = <<"default_concept">>

\* classify returned for a chunk with a bullet list whose title, verbs and
\* other features match no rule.
C17_Witness ==
    /\ classifier.pc = "returned"
    /\ NoRuleMatched
    /\ classifier.features.has_bullet_list
    /\ classifier.result[1].type = "Concept"
    /\ classifier.result[1].matched_rules = <<"default_concept">>

(***************************************************************************)
(* DocumentAnalyzer.analyze and HybridClassifier.classify.  The analyzer   *)
(* owns a HybridClassifier with the default weights and thresholds and an  *)
(* ActiveLearningManager on the review directory.  Chunk i of a document   *)
(* has the id chunk_i.                                                     *)
(***************************************************************************)

MaxChunks == 2         \* chunks of one document

ChunkIdOf(i) == <<"chunk_1", "chunk_2", "chunk_3", "chunk_4">>[i]

\* Features _extract_features may return for a chunk: a chunk of 250 words
\* that may have a numbered list, tables and a definition, and has no bullet
\* list, code block, named entity, imperative verb or "is" statement.
ChunkFeatures ==
    {f \in FeatureDicts :
        /\ ~f.has_bullet_list /\ f.word_count = 250 /\ f.code_blocks = 0
        /\ f.named_entities = 0 /\ f.noun_count = 1
        /\ f.table_count = (IF f.has_table THEN 2 ELSE 0)
        /\ f.imperative_verbs = 0 /\ f.action_verbs = 1 /\ f.is_statements = 0}

\* What LLMClassifier.classify may return to the hybrid classifier: the
\* disabled default, the fallback, or a parsed response with a full score map.
Tier2Results(use_ai) ==
    IF ~use_ai THEN {DisabledResult}
    ELSE {FallbackResult}
         \cup {ParseResponse(r) : r \in
                {s \in ServiceOutcomes :
                    /\ s.kind = "json"
                    /\ ParseException(s) = NoException
                    /\ s.object.type[1].v = "task"
                    /\ s.object.confidence[1].v = 180
                    /\ SumOver(s.object.scores[1]) = One
                    /\ \A c \in Categories : s.object.scores[1][c] # Missing}}

\* HybridClassifier(use_ai) as the analyzer builds it: weights 0.3 and 0.7,
\* confidence_threshold 0.6.
DefaultEngine ==
    [weights |-> [tier1 |-> 60, tier2 |-> 140], confidence_threshold |-> 120]

\* HybridClassifier.__init__ with its default thresholds: tier1_high_confidence
\* 0.9 and the default engine.
DefaultConfig ==
    [engine |-> DefaultEngine, tier1_high_confidence |-> 180]

\* tier1_result['confidence'] >= self.tier1_high_confidence
Tier1HighConfidence(tier1_result, tier1_high_confidence) ==
    tier1_result.confidence.num * One >= tier1_high_confidence * tier1_result.confidence.den

\* fusion_engine.fuse on a tier-1 result, whose scores are fractions over
\* den, and a tier-2 result, whose scores count units of 1/One: both are
\* brought to units of 1/(den * One) before they are weighted.  Of the dict
\* fuse returns, the keys the analyzer and its statistics read are kept.
HybridFuseResult(eng, tier1_result, tier2_result) ==
    LET den          == tier1_result.scores.den
        scaled1      == [scores |-> [c \in Categories |-> tier1_result.scores.num[c] * One]]
        scaled2      == [scores |-> [c \in Categories |-> tier2_result.scores[c] * den]]
        fused_scores == Normalize(WeightedScores(eng.weights, scaled1, scaled2))
        best_type    == BestType(fused_scores.num)
    IN [type         |-> best_type,
        confidence   |-> [num |-> fused_scores.num[best_type], den |-> fused_scores.den],
        needs_review |-> <<fused_scores.num[best_type] * One
                            < eng.confidence_threshold * fused_scores.den>>]

\* analyze, lines 102-107: the next chunk of the loop and its features.
ExtractFeatures ==
    /\ classifier.pc = "loop"
    /\ classifier.next <= classifier.chunks
    /\ \E title \in {{}, {"task_keywords"}}, features \in ChunkFeatures :
        classifier' = [classifier EXCEPT
            !.pc = "tier1",
            !.chunk = <<[id |-> ChunkIdOf(classifier.next), title |-> title]>>,
            !.features = <<features>>]
    /\ OthersIdleLLM

\* HybridClassifier.classify, lines 84-93: tier 1, returned as the
\* classification when its confidence is high.
Tier1Classify ==
    /\ classifier.pc = "tier1"
    /\ LET tier1_result == RuleClassifyResult(classifier.chunk[1], classifier.features[1])
       IN IF Tier1HighConfidence(tier1_result, classifier.config.tier1_high_confidence)
          THEN classifier' = [classifier EXCEPT
                  !.pc = "classified",
                  !.classification = <<[type |-> tier1_result.type,
                                        confidence |-> tier1_result.confidence,
                                        needs_review |-> <<>>]>>]
          ELSE classifier' = [classifier EXCEPT
                  !.pc = "tier2", !.tier1 = <<tier1_result>>]
    /\ OthersIdleLLM

\* HybridClassifier.classify, line 96: tier 2.
Tier2Classify ==
    /\ classifier.pc = "tier2"
    /\ \E tier2_result \in Tier2Results(classifier.use_ai) :
        classifier' = [classifier EXCEPT !.pc = "fuse", !.tier2 = <<tier2_result>>]
    /\ OthersIdleLLM

\* HybridClassifier.classify, lines 99-112: the fused result is returned; when
\* it needs review a warning is logged.
HybridFuse ==
    /\ classifier.pc = "fuse"
    /\ classifier' = [classifier EXCEPT
            !.pc = "classified",
            !.classification = <<HybridFuseResult(classifier.config.engine, classifier.tier1[1],
                                                  classifier.tier2[1])>>,
            !.tier1 = <<>>, !.tier2 = <<>>]
    /\ OthersIdleLLM

\* analyze, lines 109-120: the chunk is appended with its classification.
AppendChunk ==
    /\ classifier.pc = "classified"
    /\ classifier' = [classifier EXCEPT
            !.pc = "loop",
            !.next = @ + 1,
            !.analyzed_chunks = Append(@, [id |-> classifier.chunk[1].id,
                                           classification |-> classifier.classification[1]]),
            !.chunk = <<>>, !.features = <<>>, !.classification = <<>>]
    /\ OthersIdleLLM

\* analyze, lines 122-137: after the last chunk the statistics are computed
\* and the result is returned.
AnalyzeReturn ==
    /\ classifier.pc = "loop"
    /\ classifier.next > classifier.chunks
    /\ classifier' = [classifier EXCEPT !.pc = "returned"]
    /\ OthersIdleLLM

InitAnalyze ==
    /\ \E use_ai \in BOOLEAN, chunks \in 1..MaxChunks :
        classifier = [pc |-> "loop", use_ai |-> use_ai, config |-> DefaultConfig,
                      chunks |-> chunks, next |-> 1,
                      chunk |-> <<>>, features |-> <<>>, tier1 |-> <<>>, tier2 |-> <<>>,
                      classification |-> <<>>, analyzed_chunks |-> <<>>]
    /\ pending_file = AbsentFile
    /\ training_file = <<>>
    /\ call = [op |-> "none", chunk_id |-> "None", label |-> "None", outcome |-> "none"]
    /\ threads = Idle
    /\ engine = Idle
    /\ fused = Idle
    /\ loop = Idle

NextAnalyze ==
    \/ ExtractFeatures
    \/ Tier1Classify
    \/ Tier2Classify
    \/ HybridFuse
    \/ AppendChunk
    \/ AnalyzeReturn

SpecAnalyze == InitAnalyze /\ [][NextAnalyze]_vars

\* C16: when the classification of a block is a fused result with
\* needs_review = true, a pending review item of that block is in the queue
\* by the time the block has been analyzed.
C16_ReviewItemCreated ==
    \A i \in 1..Len(classifier.analyzed_chunks) :
        LET analyzed == classifier.analyzed_chunks[i] IN
        analyzed.classification.needs_review = <<TRUE>>
            => \E k \in 1..Len(LoadPendingQueue(pending_file)) :
                    /\ LoadPendingQueue(pending_file)[k].chunk_id = analyzed.id
                    /\ LoadPendingQueue(pending_file)[k].status = "pending"

(***************************************************************************)
(* Properties of the loop, the validator and the repairer (SpecLoop).      *)
(***************************************************************************)

\* The loop ran on a document in which the validator finds no error.
ValidInput ==
    /\ loop.max_iterations >= 1
    /\ Validate(loop.dita_xml, loop.content_type).is_valid

ConvergedOnFirstPass ==
    /\ loop.result.success
    /\ loop.result.iterations = 1
    /\ Len(loop.result.validation_history) = 1
    /\ loop.result.repair_history = <<>>
    /\ loop.result.final_xml = loop.dita_xml

\* C12 as stated: a document without structural violations converges on the
\* first validation pass without repair, and its report has status passed.
C12_ValidDocumentPasses ==
    (loop.pc = "reported" /\ ValidInput)
        => (ConvergedOnFirstPass /\ loop.report[1].overall_status = "passed")

\* C12 as amended: such a document converges on the first validation pass
\* without repair; its report has status failed when the custom checks found an
\* error, passed_with_warnings when the validator or the custom checks gave a
\* warning, and passed otherwise.
C12_ValidDocumentConverges ==
    /\ (loop.pc \in {"done", "reported"} /\ ValidInput) => ConvergedOnFirstPass
    /\ (loop.pc = "reported" /\ ValidInput)
        => LET r == loop.report[1] IN
           r.overall_status =
               IF r.custom = "error" THEN "failed"
               ELSE IF r.validation_warnings \/ r.custom = "warning"
                    THEN "passed_with_warnings"
               ELSE "passed"

\* A valid document converged on the first pass and was reported with warnings.
C12_Witness ==
    /\ loop.pc = "reported"
    /\ ValidInput
    /\ ConvergedOnFirstPass
    /\ loop.report[1].validation_warnings
    /\ loop.report[1].overall_status = "passed_with_warnings"

\* The validator's only finding in the input is one DuplicateID error: two
\* elements share an id, and nothing else is wrong.
OnlyDuplicateId ==
    LET v == Validate(loop.dita_xml, loop.content_type) IN
    /\ loop.max_iterations >= 2
    /\ Len(v.errors) = 1
    /\ v.errors[1].type = "DuplicateID"

\* C13: a document whose only violation is an id shared by two elements
\* converges in two iterations: the repair renames the later occurrence with a
\* numeric suffix and keeps the first, and the next validation pass finds no
\* error.
C13_DuplicateIdConverges ==
    (loop.pc \in {"done", "reported"} /\ OnlyDuplicateId)
    => LET id       == Validate(loop.dita_xml, loop.content_type).errors[1].id
           before   == loop.dita_xml.ids
           repaired == loop.result.repair_history[1].result.repaired_xml.ids
           first    == CHOOSE k \in 1..Len(before) :
                          before[k].id = id /\ \A j \in 1..(k - 1) : before[j].id # id
       IN /\ Len(loop.result.repair_history) >= 1
          /\ \A k \in 1..Len(before) :
                repaired[k].id = IF before[k].id = id /\ k # first
                                 THEN id \o <<"_", "2">> ELSE before[k].id
          /\ loop.result.validation_history[2].result.is_valid
          /\ loop.result.success
          /\ loop.result.iterations = 2

\* The mandatory container of a topic type.
Container(root) ==
    IF root = "task" THEN "taskbody" ELSE IF root = "concept" THEN "conbody" ELSE "refbody"

\* The input's only defect is that the container of its type is absent: it
\* parses, its root is one of the three types and is what content_type says,
\* it has its title, and its ids are unique and match the pattern.
OnlyContainerMissing ==
    LET doc == loop.dita_xml IN
    /\ doc.wf
    /\ doc.root \in {"task", "concept", "reference"}
    /\ loop.content_type \in {"None", Capitalize(doc.root)}
    /\ doc.kids = <<"title">>
    /\ ValidateCommonRules(doc) = <<>>

\* C14: for such a document the first validation pass yields exactly one
\* error, a MissingRequiredElement for the container; the repair that follows
\* records no rule fix, and without the LLM tier it returns the document
\* unchanged with that error left over.
C14_MissingContainer ==
    (OnlyContainerMissing /\ Len(loop.result.validation_history) >= 1)
    => LET errors == loop.result.validation_history[1].result.errors IN
       /\ errors = <<Error("MissingRequiredElement",
                           <<Container(loop.dita_xml.root)>>, NoId)>>
       /\ Len(loop.result.repair_history) >= 1
          => LET r == loop.result.repair_history[1].result IN
             /\ \A k \in 1..Len(r.applied_fixes) : r.applied_fixes[k].type = "LLMRepair"
             /\ r.applied_fixes = <<>>
                => /\ r.repaired_xml = loop.dita_xml
                   /\ r.remaining_errors = errors
                   /\ ~r.success
             /\ ~loop.use_ai => r.applied_fixes = <<>>

\* A task without <taskbody> went through a repair without the LLM tier.
C14_Witness ==
    /\ OnlyContainerMissing
    /\ loop.dita_xml.root = "task"
    /\ ~loop.use_ai
    /\ loop.pc = "done"
    /\ Len(loop.result.repair_history) = 1
    /\ loop.result.repair_history[1].result.repaired_xml = loop.dita_xml

\* C15: the rule tier is idempotent.  Without the LLM tier the document of
\* one iteration's repair is what the next iteration validates and repairs
\* again: after a repair that applied rule fixes, the next repair applies none
\* and returns the document as it got it.
C15_RuleTierIdempotent ==
    ~loop.use_ai
    => \A k \in 1..(Len(loop.result.repair_history) - 1) :
          LET once  == loop.result.repair_history[k].result
              twice == loop.result.repair_history[k + 1].result
          IN once.applied_fixes # <<>>
             => /\ twice.applied_fixes = <<>>
                /\ twice.repaired_xml = once.repaired_xml

\* The number of errors of one type, and whether an error is in the list.
CountType(errors, type) == Cardinality({k \in 1..Len(errors) : errors[k].type = type})
Reported(errors, error) == \E k \in 1..Len(errors) : errors[k] = error

\* C20: the first validation pass, on the input.  A document that does not
\* parse gets the parse error and nothing else.  On a document that parses,
\* every violation is reported whatever else was found: one DuplicateID per
\* element repeating an earlier id, one InvalidIDFormat per id off the
\* pattern, and for the type the document is validated as, the missing title,
\* the missing container, each <step> without <cmd>, and each element out of
\* order.
C20_ValidationPassIsComplete ==
    Len(loop.result.validation_history) >= 1
    => LET doc    == loop.dita_xml
           errors == loop.result.validation_history[1].result.errors
           as     == IF loop.content_type = "Task" \/ doc.root = "task" THEN "task"
                     ELSE IF loop.content_type = "Concept" \/ doc.root = "concept"
                          THEN "concept"
                     ELSE IF doc.root = "reference" THEN "reference" ELSE "none"
       IN IF ~doc.wf
          THEN Len(errors) = 1 /\ errors[1].type = "XMLSyntaxError"
          ELSE
          /\ CountType(errors, "DuplicateID")
                = Cardinality({k \in 1..Len(doc.ids) :
                                  \E j \in 1..(k - 1) : doc.ids[j].id = doc.ids[k].id})
          /\ CountType(errors, "InvalidIDFormat")
                = Cardinality({k \in 1..Len(doc.ids) : ~IdPatternMatches(doc.ids[k].id)})
          /\ (as # "none" /\ Positions(doc.kids, "title") = {})
                => Reported(errors, Error("MissingRequiredElement", <<"title">>, NoId))
          /\ (as # "none" /\ Positions(doc.kids, Container(as)) = {})
                => Reported(errors,
                            Error("MissingRequiredElement", <<Container(as)>>, NoId))
          /\ as = "task" /\ Positions(doc.kids, "taskbody") # {}
                => /\ \A i \in 1..Len(doc.steps.cmds) :
                        ~doc.steps.cmds[i]
                        => Reported(errors, Error("MissingRequiredElement",
                                                  <<"step", DigitChar(i), "cmd">>, NoId))
                   /\ doc.body = <<"steps", "context">>
                        => Reported(errors, Error("ElementOrderError", <<"steps">>, NoId))
          /\ (as = "task" /\ doc.kids = <<"taskbody", "title">>)
                => Reported(errors, Error("ElementOrderError", <<"taskbody">>, NoId))
          /\ (as = "concept" /\ doc.kids = <<"conbody", "title">>)
                => Reported(errors, Error("ElementOrderError", <<"conbody">>, NoId))

\* One pass reported a step without <cmd>, a repeated id and an id off the
\* pattern together.
C20_Witness ==
    /\ Len(loop.result.validation_history) >= 1
    /\ LET errors == loop.result.validation_history[1].result.errors IN
       /\ CountType(errors, "MissingRequiredElement") >= 1
       /\ CountType(errors, "DuplicateID") >= 1
       /\ CountType(errors, "InvalidIDFormat") >= 2

\* C21: when run returns, final_validation is present and is the validation
\* of final_xml, so a run that did not converge reports exactly the errors
\* that remain in the document it returns.
C21_FinalValidationBelongsToFinalXml ==
    loop.pc = "done" =>
        /\ Len(loop.result.final_validation) = 1
        /\ loop.result.final_validation[1]
                = Validate(loop.result.final_xml, loop.content_type)

\* A run that repaired the document, used up its bound without converging,
\* and returns the repaired document with the errors that remain in it.
C21_Witness ==
    /\ loop.pc = "done"
    /\ ~loop.result.success
    /\ loop.result.iterations = loop.max_iterations
    /\ loop.result.final_xml # loop.dita_xml
    /\ Len(loop.result.final_validation[1].errors) > 0
    /\ loop.result.final_validation[1]
            # loop.result.validation_history[1].result

\* The repaired document of entry k of repair_history was validated after
\* the repair: by the pass of the next iteration or by the final validation.
ValidatedLater(k) ==
    LET r == loop.result.repair_history[k]
        validated == Validate(r.result.repaired_xml, loop.content_type)
    IN \/ /\ Len(loop.result.validation_history) > r.iteration
          /\ loop.result.validation_history[r.iteration + 1].result = validated
       \/ loop.result.final_validation = <<validated>>

\* What C27 says apart from the count of the repairs: no repair in the last
\* permitted iteration, every repaired document validated before run returns,
\* and len(repair_history) <= len(validation_history) = iterations.
RepairsAreValidated ==
    /\ \A k \in 1..Len(loop.result.repair_history) :
            loop.result.repair_history[k].iteration < loop.max_iterations
    /\ loop.pc = "done" =>
          /\ \A k \in 1..Len(loop.result.repair_history) : ValidatedLater(k)
          /\ Len(loop.result.repair_history) <= Len(loop.result.validation_history)
          /\ Len(loop.result.validation_history) = loop.result.iterations

\* C27 as stated: the repair engine is invoked at most max_iterations - 1
\* times in a run and never in the last permitted iteration, every repaired
\* document is validated by a later pass before run returns, and
\* len(repair_history) <= len(validation_history) = iterations.
C27_RepairsAtMostBoundMinusOne ==
    /\ Len(loop.result.repair_history) <= loop.max_iterations - 1
    /\ RepairsAreValidated

\* C27 as amended: the same with at most max(max_iterations - 1, 0) repairs,
\* which is no repair at all for max_iterations = 0.
C27_RepairsBelowBound ==
    /\ Len(loop.result.repair_history)
            <= (IF loop.max_iterations >= 1 THEN loop.max_iterations - 1 ELSE 0)
    /\ RepairsAreValidated

\* A run that repaired in every iteration but the last and converged in the
\* last permitted one.
C27_Witness ==
    /\ loop.pc = "done"
    /\ loop.max_iterations >= 3
    /\ Len(loop.result.repair_history) = loop.max_iterations - 1
    /\ loop.result.iterations = loop.max_iterations
    /\ loop.result.success

\* The errors the repair of entry k of repair_history was given: those of
\* the validation pass of its iteration.
InputErrors(k) ==
    loop.result.validation_history[loop.result.repair_history[k].iteration].result.errors

\* One of the applied fixes was made for the error: a rule fix of its type
\* for its id or element, or the fix of the model-assisted tier, which is
\* recorded for all the complex errors together.
Addressed(error, applied_fixes) ==
    \E n \in 1..Len(applied_fixes) :
        \/ applied_fixes[n].type = "LLMRepair" /\ IsComplex(error)
        \/ /\ applied_fixes[n].type = error.type
           /\ applied_fixes[n].id = error.id
           /\ error.type = "EmptyElement" => applied_fixes[n].element = error.element

\* C25: every repair result accounts for all input errors. remaining_errors
\* holds only input errors and holds every input error that no applied fix
\* addressed, and success is true only if every input error was addressed.
C25_RepairAccountsForErrors ==
    \A k \in 1..Len(loop.result.repair_history) :
        LET r == loop.result.repair_history[k].result IN
        /\ Range(r.remaining_errors) \subseteq Range(InputErrors(k))
        /\ \A e \in Range(InputErrors(k)) :
              ~Addressed(e, r.applied_fixes) => e \in Range(r.remaining_errors)
        /\ r.success => \A e \in Range(InputErrors(k)) : Addressed(e, r.applied_fixes)

\* C26: the deterministic tier never makes a document worse. After a repair
\* that applied rule fixes only, every error the validation of the repaired
\* document reports was already reported for the document given to the repair.
C26_RuleTierAddsNoError ==
    \A k \in 1..Len(loop.result.repair_history) :
        LET r == loop.result.repair_history[k].result IN
        (/\ Len(r.applied_fixes) > 0
         /\ \A n \in 1..Len(r.applied_fixes) : r.applied_fixes[n].type # "LLMRepair")
        => Range(Validate(r.repaired_xml, loop.content_type).errors)
                \subseteq Range(InputErrors(k))

\* The result of the repair of iteration i, once it is recorded.
RepairResultOf(i) ==
    LET k == CHOOSE k \in 1..Len(loop.result.repair_history) :
                loop.result.repair_history[k].iteration = i
    IN loop.result.repair_history[k].result

\* C23: when the service call of the model-assisted tier raises, or its
\* answer is not well-formed XML, the document stays as it was on entry to
\* the tier, no fix of the tier is recorded, the errors the tier was given
\* stay in remaining_errors, the repair reports success = false, and no
\* exception reaches the loop.
C23_FailedServiceCallIsRejection ==
    /\ loop.pc # "raised"
    /\ \A n \in 1..Len(loop.calls) :
          LET c == loop.calls[n].call
              r == RepairResultOf(loop.calls[n].iteration)
          IN (c.tier = "llm" /\ c.answer \in {"raises", "not_xml"})
             => /\ r.repaired_xml = c.xml
                /\ \A m \in 1..Len(r.applied_fixes) : r.applied_fixes[m].type # "LLMRepair"
                /\ Range(c.errors) \subseteq Range(r.remaining_errors)
                /\ ~r.success

\* The rule tier changed the document, and the service then answered text
\* that is no XML: the repair returns the document of the rule tier.
C23_Witness ==
    \E n \in 1..Len(loop.calls) :
        LET c == loop.calls[n].call
            r == RepairResultOf(loop.calls[n].iteration)
        IN /\ c.tier = "llm" /\ c.answer = "not_xml"
           /\ c.xml # loop.dita_xml
           /\ Len(r.applied_fixes) > 0
           /\ r.repaired_xml = c.xml
           /\ ~r.success

\* C24: in every iteration the validation comes before the repair, each
\* tier runs at most once and the service is called at most once, and the
\* tiers are given the errors of the validation pass of that iteration: the
\* rule tier its simple errors, the model-assisted tier its complex errors.
C24_TiersRunOncePerIteration ==
    /\ \A n \in 1..Len(loop.calls) :
          LET i == loop.calls[n].iteration
              c == loop.calls[n].call
          IN /\ i <= Len(loop.result.validation_history)
             /\ loop.result.validation_history[i].iteration = i
             /\ c.errors = (IF c.tier = "rules"
                             THEN ClassifyErrors(
                                    loop.result.validation_history[i].result.errors)
                                    .simple_errors
                             ELSE ClassifyErrors(
                                    loop.result.validation_history[i].result.errors)
                                    .complex_errors)
             /\ \A m \in 1..Len(loop.calls) :
                    (loop.calls[m].iteration = i /\ loop.calls[m].call.tier = c.tier)
                        => m = n
    /\ \A k \in 1..Len(loop.result.repair_history) :
          loop.result.repair_history[k].iteration <= Len(loop.result.validation_history)

\* In the second iteration both tiers ran, on errors other than those of
\* the first iteration, and the service call failed in both iterations.
C24_Witness ==
    \E n \in 1..Len(loop.calls), m \in 1..Len(loop.calls) :
        /\ loop.calls[n].iteration = 1 /\ loop.calls[m].iteration = 2
        /\ loop.calls[n].call.tier = "llm" /\ loop.calls[m].call.tier = "llm"
        /\ loop.calls[n].call.answer = "raises" /\ loop.calls[m].call.answer = "raises"
        /\ loop.result.validation_history[1].result.errors
                # loop.result.validation_history[2].result.errors

\* Both score maps given to fuse sum to 1 and both tiers rank category c
\* highest.
TiersAgreeOn(c) ==
    /\ fused.state = "returned"
    /\ SumOver(fused.tier1.scores) = One /\ SumOver(fused.tier2.scores) = One
    /\ fused.tier1.type = c /\ fused.tier2.type = c

\* The fused result selects c with a confidence between the two tiers'
\* scores for c, above the score of tier 1 when that of tier 2 is higher and
\* w2 > 0.  The confidence is num / den and the scores count units of 1/One.
ConvexOn(c) ==
    LET r  == fused.result
        s1 == fused.tier1.scores[c]
        s2 == fused.tier2.scores[c]
        lo == IF s1 <= s2 THEN s1 ELSE s2
        hi == IF s1 <= s2 THEN s2 ELSE s1
    IN /\ r.type = c
       /\ r.confidence.den > 0
       /\ lo * r.confidence.den <= r.confidence.num * One
       /\ r.confidence.num * One <= hi * r.confidence.den
       /\ (s2 > s1 /\ engine.weights.tier2 > 0)
             => r.confidence.num * One > fused.tier1.confidence * r.confidence.den

\* C22: fusion of two agreeing tiers is a convex combination. When both score
\* maps sum to 1 and both tiers rank the same category c highest, the fused
\* result selects c, its confidence lies between the two tiers' scores for c,
\* and it is above the tier-1 confidence when tier 2 scores c higher and
\* w2 > 0.
C22_AgreeingTiersFuseConvexly ==
    \A c \in Categories : TiersAgreeOn(c) => ConvexOn(c)

\* Item i of the queue is the one a submit_human_label call with its
\* chunk_id and an accepted label rewrites, and the call leaves it reviewed.
Resolvable(pending, i) ==
    \E human_label \in {l \in SubmitLabels : LabelAccepted(l)} :
        LET j == FindItem(pending, pending[i].chunk_id) IN
        /\ j # 0
        /\ [pending EXCEPT ![j] = Label(pending[j], human_label)][i].status = "reviewed"

\* C28: every pending review item stays resolvable. In every queue state,
\* also after the same block id was enqueued more than once, each item with
\* status pending has a submit_human_label call with its id and a valid
\* label that moves that item to reviewed.
C28_PendingItemsResolvable ==
    \A i \in 1..Len(LoadPendingQueue(pending_file)) :
        LoadPendingQueue(pending_file)[i].status = "pending"
            => Resolvable(LoadPendingQueue(pending_file), i)

(***************************************************************************)
(* QualityReporter._calculate_quality_scores.  Scores count units of       *)
(* 1/One; overall_quality, a sum of products with the weights 0.4, 0.3     *)
(* and 0.3, counts units of 1/(10 * One).                                  *)
(***************************************************************************)

\* ---- bounds of the inputs of the report
MaxReportIterations == 12   \* iterations of the loop result
MaxErrors == 11             \* errors of the final validation
MaxIssues == 5              \* custom-rule issues of one severity

\* The loop results, final validations and custom-check results a report is
\* made from: a converged run has at least one iteration and a valid final
\* document; a failed run whose final document is valid had no iteration.
ReportInputs ==
    {in \in [success : BOOLEAN, iterations : 0..MaxReportIterations,
             error_count : 0..MaxErrors,
             error : 0..MaxIssues, warning : 0..MaxIssues, info : 0..MaxIssues] :
        /\ in.success => (in.iterations >= 1 /\ in.error_count = 0)
        /\ (~in.success /\ in.error_count = 0) => in.iterations = 0
        /\ in.info <= 1 /\ in.warning <= 2}

\* max(0.0, x)
FloorAtZero(x) == IF x < 0 THEN 0 ELSE x

\* QualityReporter._calculate_quality_scores
CalculateQualityScores(in) ==
    LET dita_compliance ==
            IF in.error_count = 0 THEN One
            ELSE FloorAtZero(One - in.error_count * 20)
        structure_quality ==
            IF in.success THEN One - (in.iterations - 1) * 20 ELSE 100
        deduction == in.error * 40 + in.warning * 20 + in.info * 10
        content_completeness ==
            IF in.error + in.warning + in.info = 0 THEN One
            ELSE FloorAtZero(One - deduction)
    IN [dita_compliance      |-> dita_compliance,
        structure_quality    |-> structure_quality,
        content_completeness |-> content_completeness,
        overall_quality      |-> dita_compliance * 4 + structure_quality * 3
                                 + content_completeness * 3]

\* generate_report, lines 55-60: the scores of the report.
CalculateScores ==
    /\ loop.pc = "report"
    /\ loop' = [loop EXCEPT !.pc = "scored",
                            !.quality_scores = <<CalculateQualityScores(loop.inputs)>>]
    /\ OthersIdleLoop

InitScores ==
    /\ \E in \in ReportInputs :
        loop = [pc |-> "report", inputs |-> in, quality_scores |-> <<>>]
    /\ pending_file = AbsentFile
    /\ training_file = <<>>
    /\ call = [op |-> "none", chunk_id |-> "None", label |-> "None", outcome |-> "none"]
    /\ threads = Idle
    /\ engine = Idle
    /\ fused = Idle
    /\ classifier = Idle

NextScores == CalculateScores

SpecScores == InitScores /\ [][NextScores]_vars

\* C29: every quality score lies in [0, 1], for any iteration count,
\* converged or not, any number of residual errors and any custom-rule
\* findings: dita_compliance, structure_quality, content_completeness and
\* overall_quality.
C29_QualityScoresInUnitInterval ==
    loop.pc = "scored" =>
        LET q == loop.quality_scores[1] IN
        /\ 0 <= q.dita_compliance /\ q.dita_compliance <= One
        /\ 0 <= q.structure_quality /\ q.structure_quality <= One
        /\ 0 <= q.content_completeness /\ q.content_completeness <= One
        /\ 0 <= q.overall_quality /\ q.overall_quality <= 10 * One

(***************************************************************************)
(* HybridClassifier.classify under any thresholds: one classification of   *)
(* one chunk by a classifier built with the thresholds of its constructor. *)
(***************************************************************************)

\* Thresholds HybridClassifier.__init__ takes: confidence_threshold and
\* tier1_high_confidence are floats it does not validate; the weights are
\* the defaults.
HybridConfigs ==
    {[engine |-> [DefaultEngine EXCEPT !.confidence_threshold = confidence_threshold],
      tier1_high_confidence |-> tier1_high_confidence] :
        confidence_threshold \in {100, 120, One},
        tier1_high_confidence \in {100, 180}}

InitHybrid ==
    /\ \E use_ai \in BOOLEAN, config \in HybridConfigs,
          title \in {{}, {"task_keywords"}}, features \in ChunkFeatures :
        classifier = [pc |-> "tier1", use_ai |-> use_ai, config |-> config,
                      chunks |-> 1, next |-> 1,
                      chunk |-> <<[id |-> ChunkIdOf(1), title |-> title]>>,
                      features |-> <<features>>, tier1 |-> <<>>, tier2 |-> <<>>,
                      classification |-> <<>>, analyzed_chunks |-> <<>>]
    /\ pending_file = AbsentFile
    /\ training_file = <<>>
    /\ call = [op |-> "none", chunk_id |-> "None", label |-> "None", outcome |-> "none"]
    /\ threads = Idle
    /\ engine = Idle
    /\ fused = Idle
    /\ loop = Idle

NextHybrid ==
    \/ Tier1Classify
    \/ Tier2Classify
    \/ HybridFuse

SpecHybrid == InitHybrid /\ [][NextHybrid]_vars

\* The result classify returns has a confidence below confidence_threshold.
BelowThreshold(result, confidence_threshold) ==
    result.confidence.num * One < confidence_threshold * result.confidence.den

\* C30: whatever the thresholds, a result HybridClassifier.classify returns
\* with a confidence below confidence_threshold carries needs_review = true,
\* the result of the tier-1 shortcut included.
C30_LowConfidenceIsFlagged ==
    classifier.pc = "classified" =>
        (BelowThreshold(classifier.classification[1],
                        classifier.config.engine.confidence_threshold)
            => classifier.classification[1].needs_review = <<TRUE>>)

====
